---- MODULE Spec2Model ----
(***************************************************************************)
(* Model of citkid/crs/instrument.py: the CRS acquisition session and the  *)
(* macros it registers on rfmux.ReadoutModule.                             *)
(*                                                                         *)
(* Frequencies are integers in units of 100 kHz (325e6 Hz = 3250).         *)
(* Amplitudes are integers in dBm.  Python dictionaries keep insertion     *)
(* order: nco_freq_dict is a sequence of <<key, value>> pairs; the         *)
(* dictionaries derived from it are functions over its key set.            *)
(***************************************************************************)
EXTENDS Integers, Sequences, FiniteSets, TLC

----------------------------------------------------------------------------
\* Program constants.

\* 325e6 Hz, the allowed offset from an NCO, in units of 100 kHz.
Bandwidth == 3250
\* set_nco accepts module keys 1..4.
NumModules == 4
\* 2.5e9 - 325e6 Hz, the largest NCO set_nco accepts.
NcoLimit == 21750
\* sweep sets fir_stage = 6 before sweeping.
SweepFirStage == 6
\* capture_noise sets the fir stage back to 6.
RestoreFirStage == 6
\* get_noise_cal and the sweep step read 20 calibration samples.
CalSamples == 20
\* capture_noise warns of dropped packets at this decimation stage and below.
WarnFirStage == 4
\* The write_tones macro warns of digitization noise below this power (dBm) ...
LowPower == 0 - 60
\* ... when it is given fewer tones than this.
WarnMaxTones == 100
\* The macros add a draw of np.random.uniform(-50, 50) Hz to every frequency.
UniformRange == 50
\* threshold = 101.: a frequency less than 101 Hz above a bin multiple is moved.
Threshold == 101
\* capture_fast_noise compares the offset from the NCO with 300e6 Hz.
FastBandwidth == 3000
\* The comb sampling frequency in Hz (the value capture_fast_noise uses) and
\* the number of filter-bank bins it is divided by.
CombSamplingFreq == 625000000
NumBins == 512

----------------------------------------------------------------------------
\* Bounds of the model.

\* Largest number of channels in one write_tones / capture_noise request.
MaxChannels == 2
\* Largest number of channels in one sweep request.
MaxSweepChannels == 2
\* Largest number of sweep points per channel.
MaxPoints == 2
\* Largest number of samples the parser writes per channel.
MaxSamples == 3
\* Largest number of items in the dictionary given to set_nco.
MaxNcoItems == 2
\* Largest number of acquisition calls in one session.
MaxCalls == 3
\* Largest number of commands of one macro run after which a command fails.
MaxCommands == 20
\* Largest number of acquisition calls in a session whose commands may fail.
MaxFaultCalls == 2

\* Input values.
KeyInputs == {1, 2}
NcoInputs == {5000, 12000}
FreqInputs == {5001, 8250, 9000, 12002}
SweepStartInputs == {5001, 8500, 12002}
SweepStepInputs == {-1, 3249}
AmpInputs == {0, 2}
FullScaleInputs == {1}
FirInputs == {4, 5}
NoiseFreqInputs == {5001, 12002}
FastFreqInputs == {1750, 2000, 5001, 8000, 8250}
LenInputs == {MaxSamples - 1, MaxSamples}

Unset == <<>>

----------------------------------------------------------------------------
\* Python helpers.

Abs(x) == IF x < 0 THEN -x ELSE x

Range(s) == {s[i] : i \in 1..Len(s)}

\* max(...) and min(...) of a non-empty sequence of numbers.
SeqMax(s) == CHOOSE x \in Range(s) : \A y \in Range(s) : y <= x
SeqMin(s) == CHOOSE x \in Range(s) : \A y \in Range(s) : x <= y

\* list(d.keys()) of an ordered dictionary.
Keys(d) == [i \in 1..Len(d) |-> d[i][1]]
KeySet(d) == {d[i][1] : i \in 1..Len(d)}
\* d[k]
Get(d, k) == d[CHOOSE i \in 1..Len(d) : d[i][1] = k][2]
\* d[k] = v: an existing key keeps its position, a new key goes last.
Put(d, k, v) ==
    IF k \in KeySet(d)
    THEN [i \in 1..Len(d) |-> IF d[i][1] = k THEN <<k, v>> ELSE d[i]]
    ELSE Append(d, <<k, v>>)

RECURSIVE PutAll(_, _)
PutAll(d, items) ==
    IF items = <<>> THEN d
    ELSE PutAll(Put(d, items[1][1], items[1][2]), Tail(items))

\* min(keys, key = cost): the first key, in iteration order, of least cost.
PyMinKey(keys, cost) ==
    keys[CHOOSE i \in 1..Len(keys) :
            /\ \A j \in 1..Len(keys) : cost[keys[i]] <= cost[keys[j]]
            /\ \A j \in 1..(i - 1) : cost[keys[j]] > cost[keys[i]]]

\* Variant: each value is put at the front of its module's list.
RECURSIVE AppendLoopAtFront(_, _, _, _)
AppendLoopAtFront(d, module_of, values, i) ==
    IF i > Len(values) THEN d
    ELSE AppendLoopAtFront([d EXCEPT ![module_of[i]] = <<values[i]>> \o @],
                           module_of, values, i + 1)

\* for ch_ix, ... in zip(...): d[module_index].append(value)
RECURSIVE AppendLoop(_, _, _, _)
AppendLoop(d, module_of, values, i) ==
    IF i > Len(values) THEN d
    ELSE AppendLoop([d EXCEPT ![module_of[i]] = Append(@, values[i])],
                    module_of, values, i + 1)

\* list(range(n))
ChannelIndices(n) == [i \in 1..n |-> i - 1]

----------------------------------------------------------------------------
\* Tone-to-module assignment.

\* Variant: every tone goes to the first module of the table.
ToneModuleFirstKey(nco, fr) == Keys(nco)[1]

\* write_tones: min(nco_freq_dict, key = |nco[k] - fr|)
ToneModule(nco, fr) ==
    PyMinKey(Keys(nco), [k \in KeySet(nco) |-> Abs(Get(nco, k) - fr)])

\* Variant: a row goes to the module nearest to its first point.
SweepModuleFirstPoint(nco, freqs) ==
    PyMinKey(Keys(nco), [k \in KeySet(nco) |-> Abs(Get(nco, k) - freqs[1])])

\* sweep: min(nco_freq_dict, key = max(|nco[k] - max(freqs)|, |nco[k] - min(freqs)|))
SweepModule(nco, freqs) ==
    PyMinKey(Keys(nco),
             [k \in KeySet(nco) |->
                 SeqMax(<<Abs(Get(nco, k) - SeqMax(freqs)),
                          Abs(Get(nco, k) - SeqMin(freqs))>>)])

\* write_tones: the module chosen for each tone, in channel order.
ToneModules(nco, fres) == [i \in 1..Len(fres) |-> ToneModule(nco, fres[i])]
\* sweep: the module chosen for each row, in channel order.
SweepModules(nco, frequencies) ==
    [i \in 1..Len(frequencies) |-> SweepModule(nco, frequencies[i])]

\* Variant: only the first tone of each module is checked against the band.
TonesOutOfBandFirstTone(nco, fd) ==
    \E m \in KeySet(nco) : Len(fd[m]) > 0 /\ Abs(fd[m][1] - Get(nco, m)) > Bandwidth

\* write_tones: any(|fres_dict[m] - nco[m]| > 325e6) for some module.
TonesOutOfBand(nco, fd) ==
    \E m \in KeySet(nco) : \E i \in 1..Len(fd[m]) :
        Abs(fd[m][i] - Get(nco, m)) > Bandwidth

\* sweep: any(|frequencies_dict[m] - nco[m]|.flatten() > 325e6) for some module.
SweepOutOfBand(nco, fd) ==
    \E m \in KeySet(nco) : \E i \in 1..Len(fd[m]) : \E j \in 1..Len(fd[m][i]) :
        Abs(fd[m][i][j] - Get(nco, m)) > Bandwidth

----------------------------------------------------------------------------
\* State.

VARIABLES
    \* CRS attributes
    splitter,           \* self.splitter
    full_scale_dbm,     \* <<d.full_scale_dbm>>, Unset before configure_system
    nco_freq_dict,      \* self.nco_freq_dict
    fres_dict,          \* self.fres_dict
    ares_dict,          \* self.ares_dict
    ch_ix_dict,         \* self.ch_ix_dict
    frequencies_dict,   \* self.frequencies_dict
    \* the device and the working directory
    fir_stage,          \* the device's decimation stage
    dev_cmds,           \* device-level commands the current call has issued
    cmds,               \* per module: the commands the current call has issued
    routing,            \* per module: the device's routing mode (set_dmfd_routing)
    tone_hz,            \* per module: the Hz the write_tones macro added to each tone
    sweep_hz,           \* per module: the Hz the sweep macro added to each sweep point
    uniform,            \* the values (Hz) np.random.uniform may return in this run
    data_path_exists,   \* whether tmp/parser_data_00/ exists
    parser_launched,    \* number of parser processes the current call has launched
    parser_out,         \* per module: the number of samples per tone the parser wrote
    \* the call in flight (or the last one, once it has returned)
    pc, op, args, pending, status, error, ret,
    sweep_f, sweep_z,   \* the sweep macro's result tables
    noise_zcal_dict,    \* get_noise_cal's result table
    ncalls,             \* number of acquisition calls made on this session
    history,            \* the splits made on this session, oldest first
    fir_before,         \* the device's decimation stage when the current call started
    warnings,           \* the warnings the current call has raised
    fault,              \* <<m, k>> once the k-th remote command of module m has failed
    other_pc            \* a second, overlapping capture_noise call: its position

sessionVars == <<uniform, splitter, full_scale_dbm, nco_freq_dict>>
dictVars == <<fres_dict, ares_dict, ch_ix_dict, frequencies_dict>>
deviceVars == <<fir_stage, dev_cmds, cmds, routing, data_path_exists, parser_launched,
                parser_out>>
callVars == <<pc, op, args, pending, status, error, ret>>
resultVars == <<sweep_f, sweep_z, noise_zcal_dict>>
observerVars == <<fir_before, warnings, fault, other_pc>>
hzVars == <<tone_hz, sweep_hz>>
vars == <<sessionVars, dictVars, deviceVars, callVars, resultVars, ncalls, history,
          observerVars, hzVars>>

ModuleIds == 1..NumModules
NoCmds == [m \in ModuleIds |-> <<>>]
NoHz == [m \in ModuleIds |-> <<>>]
NoArgs == [fres |-> <<>>, ares |-> <<>>, frequencies |-> <<>>, fir_stage |-> 0,
           delete_parser_data |-> FALSE, return_raw |-> FALSE, nco_freq_dict |-> <<>>,
           via |-> "", bw |-> 0, qres |-> <<>>, npoints |-> 0]

\* A hardware command: its name and its arguments.
Cmd(name, a) == [c |-> name, a |-> a]

\* The routing mode a set_dmfd_routing command selects: d.ROUTING.CARRIER is the
\* loopback path and d.ROUTING.ADC the normal input path.
RouteOf(c) == IF c.a = <<1>> THEN "CARRIER" ELSE "ADC"

\* The routing mode of a module that was in mode r once the commands cs
\* addressed to it have run: that of the last set_dmfd_routing, if any.
RouteAfter(r, cs) ==
    LET ks == {k \in 1..Len(cs) : cs[k].c = "set_dmfd_routing"}
    IN IF ks = {} THEN r
       ELSE RouteOf(cs[CHOOSE k \in ks : \A j \in ks : j <= k])

\* CRS.__init__(crs_sn, splitter): the NCO table is empty and the system is not
\* configured.
Constructed ==
    /\ splitter \in BOOLEAN
    /\ full_scale_dbm = Unset
    /\ nco_freq_dict = <<>>
    /\ fres_dict = Unset /\ ares_dict = Unset /\ ch_ix_dict = Unset
    /\ frequencies_dict = Unset
    /\ fir_stage = RestoreFirStage
    /\ dev_cmds = <<>> /\ cmds = NoCmds
    /\ routing = [m \in ModuleIds |-> "unknown"]
    /\ tone_hz = NoHz /\ sweep_hz = NoHz
    /\ parser_launched = 0
    /\ parser_out = Unset
    /\ pc = "idle" /\ op = "none" /\ args = NoArgs /\ pending = {}
    /\ status = "none" /\ error = "" /\ ret = Unset
    /\ sweep_f = Unset /\ sweep_z = Unset /\ noise_zcal_dict = Unset
    /\ ncalls = 0
    /\ history = <<>>
    /\ fir_before = RestoreFirStage
    /\ warnings = {}
    /\ fault = Unset
    /\ other_pc = "none"

\* A session constructed in a working directory that holds no parser output.
Init == Constructed /\ splitter = TRUE /\ data_path_exists = FALSE /\ uniform = {0}

\* A session constructed in a working directory that may hold the output of
\* an earlier run.
InitAnyDirectory ==
    Constructed /\ splitter = TRUE /\ data_path_exists \in BOOLEAN /\ uniform = {0}

\* A session in which np.random.uniform(-50, 50) may return either end of its
\* range or the middle.
InitPerturb ==
    /\ Constructed /\ splitter = TRUE /\ data_path_exists = FALSE
    /\ uniform = {0 - UniformRange, 0, UniformRange}

\* A session constructed with or without the splitter.
InitAnySplitter == Constructed /\ data_path_exists = FALSE /\ uniform = {0}

\* The commands a step has appended to the list of module m.
Appended(m) == SubSeq(cmds'[m], Len(cmds[m]) + 1, Len(cmds'[m]))

\* Variant: a routing switch is not addressed to a module and acts on all.
RoutedAll(m) ==
    routing' = [n \in ModuleIds |-> RouteAfter(routing[n], Appended(m))]

\* The device follows the commands a step has sent to module m: they are
\* addressed to m (module = module_index) and leave the other modules' routing.
Routed(m) == routing' = [routing EXCEPT ![m] = RouteAfter(@, Appended(m))]

\* A call starts: nothing has been issued or returned yet.
StartCall(name, a) ==
    /\ pc = "idle"
    /\ op' = name
    /\ args' = a
    /\ fir_before' = fir_stage
    /\ fault' = Unset
    /\ tone_hz' = NoHz /\ sweep_hz' = NoHz
    /\ UNCHANGED other_pc

\* The call raises: no further step of it runs.
Raise(e) ==
    /\ pc' = "idle"
    /\ pending' = {}
    /\ status' = "error"
    /\ error' = e
    /\ ret' = Unset

\* The call returns v.
Return(v) ==
    /\ pc' = "idle"
    /\ pending' = {}
    /\ status' = "ok"
    /\ error' = ""
    /\ ret' = v

\* The call goes on at label l, with the modules of ms still to run their macro.
Goto(l, ms) ==
    /\ pc' = l
    /\ pending' = ms
    /\ status' = "running"
    /\ error' = ""
    /\ ret' = Unset

----------------------------------------------------------------------------
\* Configuration calls.

\* configure_system: routes modules 1..4 to the ADC, sets the DAC scale and
\* records the full scale.
ConfigureSystem(fs) ==
    /\ StartCall("configure_system", NoArgs)
    /\ full_scale_dbm' = <<fs>>
    /\ cmds' = [m \in ModuleIds |->
                  <<Cmd("set_dmfd_routing", <<0>>), Cmd("set_dac_scale", <<fs>>)>>]
    /\ routing' = [m \in ModuleIds |-> RouteAfter(routing[m], cmds'[m])]
    /\ dev_cmds' = <<Cmd("set_clock_source", <<>>), Cmd("set_analog_bank", <<>>)>>
    /\ Return(Unset)
    /\ UNCHANGED <<uniform, splitter, nco_freq_dict, dictVars, fir_stage, data_path_exists,
                   parser_launched, parser_out, resultVars, ncalls, history>>
    /\ warnings' = {}

\* Variant: only the first item of the dictionary is checked.
SetNcoInvalidFirstItem(items) ==
    \/ items[1][1] \notin ModuleIds
    \/ items[1][2] > NcoLimit

\* set_nco: the items of the dictionary it is given, in order.
SetNcoInvalid(items) ==
    \/ \E i \in 1..Len(items) : items[i][1] \notin ModuleIds
    \/ \E i \in 1..Len(items) : items[i][2] > NcoLimit

\* set_nco: each module of the dictionary sets its NCO, then the table takes
\* the frequency read back from the device for each key in turn.
SetNco(items) ==
    /\ StartCall("set_nco", [NoArgs EXCEPT !.nco_freq_dict = items])
    /\ parser_launched' = 0
    /\ IF SetNcoInvalid(items)
       THEN /\ Raise("ValueError")
            /\ cmds' = NoCmds
            /\ UNCHANGED nco_freq_dict
       ELSE IF full_scale_dbm = Unset
       THEN \* self.analog_bank_high does not exist before configure_system
            /\ Raise("AttributeError")
            /\ cmds' = NoCmds
            /\ UNCHANGED nco_freq_dict
       ELSE /\ Return(Unset)
            /\ cmds' = [m \in ModuleIds |->
                          IF m \in KeySet(items)
                          THEN <<Cmd("set_nco_frequency", <<Get(items, m)>>),
                                 Cmd("get_nco_frequency", <<>>)>>
                          ELSE <<>>]
            /\ nco_freq_dict' = PutAll(nco_freq_dict, items)
    /\ dev_cmds' = <<>>
    /\ UNCHANGED <<uniform, splitter, full_scale_dbm, dictVars, fir_stage, data_path_exists,
                   parser_out, resultVars, ncalls, history, routing>>
    /\ warnings' = {}

----------------------------------------------------------------------------
\* CRS.write_tones.

\* Variant: the lists of the previous call are kept instead of being reset.
EmptyListsKept(nco) ==
    IF DOMAIN ch_ix_dict = KeySet(nco) /\ Len(nco) > 0
    THEN ch_ix_dict
    ELSE [k \in KeySet(nco) |-> <<>>]

\* {key: [] for key in nco_freq_dict.keys()}
EmptyLists(nco) == [k \in KeySet(nco) |-> <<>>]

\* The record of a split: the request, the NCO table it was made with and the
\* channel lists it produced.
LogSplit(kind, request) ==
    history' = IF Len(nco_freq_dict) = 0
               THEN history
               ELSE Append(history, [kind |-> kind, request |-> request,
                                     table |-> nco_freq_dict, assignment |-> ch_ix_dict'])

\* CRS.write_tones up to its dispatch of the write_tones macro: the NCO check,
\* the three dictionaries, the band check.  On success the call goes on at label.
WriteTonesSplit(fres, ares, label) ==
    IF Len(nco_freq_dict) = 0
    THEN /\ Raise("Exception: NCO frequencies are not set")
         /\ UNCHANGED <<fres_dict, ares_dict, ch_ix_dict>>
    ELSE LET module_index == ToneModules(nco_freq_dict, fres)
             fd == AppendLoop(EmptyLists(nco_freq_dict), module_index, fres, 1)
         IN /\ fres_dict' = fd
            /\ ares_dict' = AppendLoop(EmptyLists(nco_freq_dict), module_index, ares, 1)
            /\ ch_ix_dict' = AppendLoop(EmptyLists(nco_freq_dict), module_index,
                                        ChannelIndices(Len(fres)), 1)
            /\ IF TonesOutOfBand(nco_freq_dict, fd)
               THEN Raise("ValueError: All of fres must be within 325 MHz of an NCO frequency")
               ELSE Goto(label, KeySet(nco_freq_dict))

WriteTonesBegin(fres, ares) ==
    /\ StartCall("write_tones", [NoArgs EXCEPT !.fres = fres, !.ares = ares])
    /\ ncalls' = ncalls + 1
    /\ WriteTonesSplit(fres, ares, "write_tones")
    /\ LogSplit("tones", fres)
    /\ dev_cmds' = <<>> /\ cmds' = NoCmds /\ parser_launched' = 0
    /\ UNCHANGED <<sessionVars, frequencies_dict, fir_stage, data_path_exists,
                   parser_out, resultVars, routing>>
    /\ warnings' = {}

\* The width of a filter-bank bin, comb_sampling_freq / 512, in eighths of a
\* Hz (1220703.125 Hz).
BinWidth8 == CombSamplingFreq \div (NumBins \div 8)

\* f % (comb_sampling_freq / 512) in eighths of a Hz, for the frequency f of
\* c units of 100 kHz plus h Hz.
Residue8(c, h) ==
    (((((c * 1000) % BinWidth8) * 100) % BinWidth8) * 8 + 8 * h + BinWidth8) % BinWidth8

\* fres[fres % (comb_sampling_freq / 512) < threshold] += threshold, on the Hz
\* h that frequency c has been moved by so far.
Nudged(c, h) == IF Residue8(c, h) < 8 * Threshold THEN h + Threshold ELSE h

\* The write_tones macro: fres += np.random.uniform(-50, 50, fres.shape), then
\* the move off the bin multiples.  u holds the draws; fres_dict[m] is changed
\* in place, and tone_hz[m] holds the Hz by which each of its tones has moved.
PerturbTones(m) ==
    /\ \E u \in [1..Len(fres_dict[m]) -> uniform] :
          tone_hz' = [tone_hz EXCEPT ![m] =
                         [i \in 1..Len(fres_dict[m]) |-> Nudged(fres_dict[m][i], u[i])]]
    /\ UNCHANGED sweep_hz

\* The sweep macro: frequencies += np.random.uniform(-50, 50, frequencies.shape)
\* and the move off the bin multiples, in place on frequencies_dict[m]; then
\* the write_tones macro does the same again on its copy of the first points.
PerturbSweep(m) ==
    LET frequencies == frequencies_dict[m]
        n_channels == Len(frequencies)
        n_points == Len(frequencies[1])
    IN \E u \in [1..n_channels -> [1..n_points -> uniform]], v \in [1..n_channels -> uniform] :
          LET hz == [ch \in 1..n_channels |->
                       [j \in 1..n_points |-> Nudged(frequencies[ch][j], u[ch][j])]]
          IN /\ sweep_hz' = [sweep_hz EXCEPT ![m] = hz]
             /\ tone_hz' = [tone_hz EXCEPT ![m] =
                               [ch \in 1..n_channels |->
                                   Nudged(frequencies[ch][1], hz[ch][1] + v[ch])]]

\* Variant: low-power tones are refused like tones above full scale.
AmplitudeTooHighOrLow(ares) ==
    \/ \E i \in 1..Len(ares) : ares[i] > full_scale_dbm[1]
    \/ (\E i \in 1..Len(ares) : ares[i] < LowPower) /\ Len(ares) < WarnMaxTones

\* The write_tones macro: any(ares > d.full_scale_dbm)
AmplitudeTooHigh(ares) == \E i \in 1..Len(ares) : ares[i] > full_scale_dbm[1]

\* The write_tones macro: any(ares < -60) and len(ares) < 100
LowPowerTones(ares) ==
    (\E i \in 1..Len(ares) : ares[i] < LowPower) /\ Len(ares) < WarnMaxTones

\* The write_tones macro: warnings.warn("values in ares are < 60 dBm ...")
WarnLowPower(ares) ==
    warnings' = IF LowPowerTones(ares) THEN warnings \cup {"low power"} ELSE warnings

\* Variant: the hardware channels are numbered from 0, like the positions.
ToneBatchFromZero(nco, fres, ares) ==
    [i \in 1..(2 * Len(fres)) |->
        IF i % 2 = 1
        THEN [c |-> "set_frequency", a |-> <<(i + 1) \div 2 - 1, fres[(i + 1) \div 2] - nco>>]
        ELSE [c |-> "set_amplitude", a |-> <<i \div 2 - 1, ares[i \div 2] - full_scale_dbm[1]>>]]

\* The write_tones macro: the batch of one set_frequency and one set_amplitude
\* per tone; the amplitude is in dB below full scale.
ToneBatch(nco, fres, ares) ==
    [i \in 1..(2 * Len(fres)) |->
        IF i % 2 = 1
        THEN Cmd("set_frequency", <<(i + 1) \div 2, fres[(i + 1) \div 2] - nco>>)
        ELSE Cmd("set_amplitude", <<i \div 2, ares[i \div 2] - full_scale_dbm[1]>>)]

\* The write_tones macro's commands on module m.
WriteTonesCmds(m, fres, ares) ==
    <<Cmd("clear_channels", <<>>),
      Cmd("batch", ToneBatch(Get(nco_freq_dict, m), fres, ares))>>

\* The write_tones macro on module m, dispatched by CRS.write_tones.
ModuleWriteTones(m) ==
    /\ pc \in {"write_tones", "noise_tones"}
    /\ m \in pending
    /\ IF AmplitudeTooHigh(ares_dict[m])
       THEN /\ Raise("ValueError: ares must not exceed full_scale_dbm")
            /\ UNCHANGED <<cmds, warnings>>
       ELSE /\ Goto(pc, pending \ {m})
            /\ WarnLowPower(ares_dict[m])
            /\ cmds' = [cmds EXCEPT ![m] = @ \o WriteTonesCmds(m, fres_dict[m], ares_dict[m])]
    /\ UNCHANGED <<sessionVars, dictVars, fir_stage, dev_cmds, data_path_exists,
                   parser_launched, parser_out, op, args, resultVars, ncalls, history>>
    /\ UNCHANGED <<fir_before, fault, other_pc>>
    /\ PerturbTones(m)
    /\ Routed(m)

\* Variant: write_tones empties the NCO table when it returns.
WriteTonesReturnClearsTable ==
    /\ pc = "write_tones"
    /\ pending = {}
    /\ Return(Unset)
    /\ nco_freq_dict' = <<>>
    /\ UNCHANGED <<uniform, splitter, full_scale_dbm, dictVars, deviceVars, op, args, resultVars,
                   ncalls, history, observerVars, hzVars>>

\* CRS.write_tones returns once every module's macro has.
WriteTonesReturn ==
    /\ pc = "write_tones"
    /\ pending = {}
    /\ Return(Unset)
    /\ UNCHANGED <<sessionVars, dictVars, deviceVars, op, args, resultVars, ncalls, history>>
    /\ UNCHANGED <<fir_before, fault, other_pc>>
    /\ UNCHANGED hzVars
    /\ UNCHANGED warnings

----------------------------------------------------------------------------
\* CRS.sweep.

\* Variant: set_fir_stage(6) is issued before the checks of CRS.sweep.
SweepRaiseAfterFir(e) ==
    /\ Raise(e)
    /\ dev_cmds' = <<[c |-> "set_fir_stage", a |-> <<SweepFirStage>>]>>
    /\ fir_stage' = SweepFirStage

\* CRS.sweep raises before it reaches set_fir_stage: nothing has been issued.
SweepRaise(e) ==
    /\ Raise(e)
    /\ dev_cmds' = <<>>
    /\ UNCHANGED fir_stage

\* CRS.sweep up to its dispatch of the sweep macro: the NCO check, the three
\* dictionaries, the band check, then set_fir_stage(6).
SweepCall(a) ==
    /\ StartCall("sweep", a)
    /\ ncalls' = ncalls + 1
    /\ IF Len(nco_freq_dict) = 0
       THEN /\ SweepRaise("Exception: NCO frequencies are not set")
            /\ UNCHANGED <<frequencies_dict, ares_dict, ch_ix_dict>>
       ELSE LET module_index == SweepModules(nco_freq_dict, a.frequencies)
                fd == AppendLoop(EmptyLists(nco_freq_dict), module_index, a.frequencies, 1)
            IN /\ frequencies_dict' = fd
               /\ ares_dict' = AppendLoop(EmptyLists(nco_freq_dict), module_index, a.ares, 1)
               /\ ch_ix_dict' = AppendLoop(EmptyLists(nco_freq_dict), module_index,
                                           ChannelIndices(Len(a.frequencies)), 1)
               /\ IF SweepOutOfBand(nco_freq_dict, fd)
                  THEN SweepRaise("ValueError: All of frequencies must be within 325 MHz of an NCO frequency")
                  ELSE /\ Goto("sweep", KeySet(nco_freq_dict))
                       /\ dev_cmds' = <<Cmd("set_fir_stage", <<SweepFirStage>>)>>
                       /\ fir_stage' = SweepFirStage
    /\ LogSplit("sweep", a.frequencies)
    /\ cmds' = NoCmds /\ parser_launched' = 0
    /\ sweep_f' = Unset /\ sweep_z' = Unset
    /\ UNCHANGED <<sessionVars, fres_dict, data_path_exists, parser_out, noise_zcal_dict,
                   routing>>
    /\ warnings' = {}

\* CRS.sweep(frequencies, ares)
SweepBegin(frequencies, ares) ==
    SweepCall([NoArgs EXCEPT !.frequencies = frequencies, !.ares = ares])

\* np.linspace(start, stop, num).T for vectors start and stop: row i holds num
\* evenly spaced values from start[i] to stop[i], and start[i] alone when num
\* is 1.  The inputs are such that the divisions are exact.
LinspaceT(start, stop, num) ==
    [i \in 1..Len(start) |->
        [j \in 1..num |->
            IF num = 1 THEN start[i]
            ELSE start[i] + ((j - 1) * (stop[i] - start[i])) \div (num - 1)]]

\* Variant: the rows run upwards.
SweepLinearArrayRising(fres, bw, npoints) ==
    LinspaceT([i \in 1..Len(fres) |-> fres[i] - bw \div 2],
              [i \in 1..Len(fres) |-> fres[i] + bw \div 2], npoints)

\* sweep_linear: f = np.linspace(fres + bw / 2, fres - bw / 2, npoints).T
SweepLinearArray(fres, bw, npoints) ==
    LinspaceT([i \in 1..Len(fres) |-> fres[i] + bw \div 2],
              [i \in 1..Len(fres) |-> fres[i] - bw \div 2], npoints)

\* sweep_qres: spans = fres / qres;
\* f = np.linspace(fres + spans / 2, fres - spans / 2, npoints).T
SweepQresArray(fres, qres, npoints) ==
    LET spans == [i \in 1..Len(fres) |-> fres[i] \div qres[i]]
    IN LinspaceT([i \in 1..Len(fres) |-> fres[i] + spans[i] \div 2],
                 [i \in 1..Len(fres) |-> fres[i] - spans[i] \div 2], npoints)

\* sweep_linear(fres, ares, bw, npoints): builds the array and awaits
\* self.sweep on it; what sweep returns is returned.
SweepLinear(fres, ares, bw, npoints) ==
    SweepCall([NoArgs EXCEPT !.frequencies = SweepLinearArray(fres, bw, npoints),
                             !.ares = ares, !.fres = fres, !.bw = bw,
                             !.npoints = npoints, !.via = "sweep_linear"])

\* sweep_qres(fres, ares, qres, npoints): builds the array and awaits
\* self.sweep on it; what sweep returns is returned.
SweepQres(fres, ares, qres, npoints) ==
    SweepCall([NoArgs EXCEPT !.frequencies = SweepQresArray(fres, qres, npoints),
                             !.ares = ares, !.fres = fres, !.qres = qres,
                             !.npoints = npoints, !.via = "sweep_qres"])

\* A measured sample: the module, the hardware channel slot (0-based) and the
\* sweep step or time index it was read at, the calibration stages applied to
\* it so far, and the amplitudes (dBm) it was normalised by.
Sample(m, slot, t) ==
    [m |-> m, slot |-> slot, t |-> t, stages |-> <<"phase", "volts">>, norm |-> <<>>]

\* Variant: a step reads the data samples before the calibration samples.
SweepStepCmdsDataFirst(nco, frequencies, j) ==
    <<Cmd("batch", [ch \in 1..Len(frequencies) |->
                      Cmd("set_frequency", <<ch, frequencies[ch][j] - nco>>)]),
      Cmd("set_dmfd_routing", <<0>>), Cmd("sleep", <<>>),
      Cmd("py_get_samples", <<>>),
      Cmd("set_dmfd_routing", <<1>>), Cmd("sleep", <<>>),
      Cmd("py_get_samples", <<CalSamples>>)>>

\* The sweep macro: the commands of one sweep step on a module with n channels.
SweepStepCmds(nco, frequencies, j) ==
    <<Cmd("batch", [ch \in 1..Len(frequencies) |->
                      Cmd("set_frequency", <<ch, frequencies[ch][j] - nco>>)]),
      Cmd("set_dmfd_routing", <<1>>), Cmd("sleep", <<>>),
      Cmd("py_get_samples", <<CalSamples>>),
      Cmd("set_dmfd_routing", <<0>>), Cmd("sleep", <<>>),
      Cmd("py_get_samples", <<>>)>>

RECURSIVE SweepLoopCmds(_, _, _)
SweepLoopCmds(nco, frequencies, j) ==
    IF j > Len(frequencies[1]) THEN <<>>
    ELSE SweepStepCmds(nco, frequencies, j) \o SweepLoopCmds(nco, frequencies, j + 1)

\* The sweep macro's commands on module m: tones at the first point of each
\* row, the sweep steps, then clear_channels.
ModuleSweepCmds(m, frequencies, ares) ==
    WriteTonesCmds(m, [ch \in 1..Len(frequencies) |-> frequencies[ch][1]], ares)
    \o SweepLoopCmds(Get(nco_freq_dict, m), frequencies, 1)
    \o <<Cmd("clear_channels", <<>>)>>

\* The sweep macro's z for a module with n_channels rows of n_points.
ModuleSweepZ(m, frequencies) ==
    [ch \in 1..Len(frequencies) |->
        [j \in 1..Len(frequencies[ch]) |-> Sample(m, ch - 1, j - 1)]]

\* SetEntry(d, k, v): d[k] = v on a dictionary held as a function.
SetEntry(d, k, v) == [x \in DOMAIN d \cup {k} |-> IF x = k THEN v ELSE d[x]]

\* The sweep macro on module m, dispatched by CRS.sweep.
ModuleSweep(m) ==
    /\ pc = "sweep"
    /\ m \in pending
    /\ IF Len(frequencies_dict[m]) = 0
       THEN \* if not len(frequencies): return
            /\ Goto(pc, pending \ {m})
            /\ UNCHANGED <<cmds, sweep_f, sweep_z, warnings>>
       ELSE IF AmplitudeTooHigh(ares_dict[m])
       THEN /\ Raise("ValueError: ares must not exceed full_scale_dbm")
            /\ UNCHANGED <<cmds, sweep_f, sweep_z, warnings>>
       ELSE /\ Goto(pc, pending \ {m})
            /\ WarnLowPower(ares_dict[m])
            /\ cmds' = [cmds EXCEPT ![m] =
                          @ \o ModuleSweepCmds(m, frequencies_dict[m], ares_dict[m])]
            /\ sweep_f' = SetEntry(sweep_f, m, frequencies_dict[m])
            /\ sweep_z' = SetEntry(sweep_z, m, ModuleSweepZ(m, frequencies_dict[m]))
    /\ UNCHANGED <<sessionVars, dictVars, fir_stage, dev_cmds, data_path_exists,
                   parser_launched, parser_out, op, args, noise_zcal_dict, ncalls, history>>
    /\ UNCHANGED <<fir_before, fault, other_pc>>
    /\ IF Len(frequencies_dict[m]) = 0 THEN UNCHANGED hzVars ELSE PerturbSweep(m)
    /\ Routed(m)

\* The positions of the sweep macro's commands that are remote calls (a sleep
\* is local).
RemoteCalls(cs) == {k \in 1..Len(cs) : cs[k].c # "sleep"}

\* Variant: a module whose command failed still stores what it has collected.
ModuleSweepFaultKeeps(m, k) ==
    /\ pc = "sweep"
    /\ m \in pending
    /\ Len(frequencies_dict[m]) > 0
    /\ ~AmplitudeTooHigh(ares_dict[m])
    /\ k \in RemoteCalls(ModuleSweepCmds(m, frequencies_dict[m], ares_dict[m]))
    /\ Raise("RemoteError")
    /\ fault' = <<m, k>>
    /\ WarnLowPower(ares_dict[m])
    /\ cmds' = [cmds EXCEPT ![m] =
                  @ \o SubSeq(ModuleSweepCmds(m, frequencies_dict[m], ares_dict[m]), 1, k)]
    /\ sweep_f' = SetEntry(sweep_f, m, frequencies_dict[m])
    /\ sweep_z' = SetEntry(sweep_z, m, ModuleSweepZ(m, frequencies_dict[m]))
    /\ UNCHANGED <<sessionVars, dictVars, fir_stage, dev_cmds, data_path_exists,
                   parser_launched, parser_out, op, args, noise_zcal_dict, ncalls, history,
                   fir_before, other_pc>>
    /\ PerturbSweep(m)
    /\ Routed(m)

\* Variant: after the failing command the macro still clears the channels.
ModuleSweepFaultClears(m, k) ==
    /\ pc = "sweep"
    /\ m \in pending
    /\ Len(frequencies_dict[m]) > 0
    /\ ~AmplitudeTooHigh(ares_dict[m])
    /\ k \in RemoteCalls(ModuleSweepCmds(m, frequencies_dict[m], ares_dict[m]))
    /\ Raise("RemoteError")
    /\ fault' = <<m, k>>
    /\ WarnLowPower(ares_dict[m])
    /\ cmds' = [cmds EXCEPT ![m] =
                  @ \o SubSeq(ModuleSweepCmds(m, frequencies_dict[m], ares_dict[m]), 1, k)
                    \o <<Cmd("clear_channels", <<>>)>>]
    /\ UNCHANGED <<sessionVars, dictVars, fir_stage, dev_cmds, data_path_exists,
                   parser_launched, parser_out, op, args, resultVars, ncalls, history,
                   fir_before, other_pc>>
    /\ PerturbSweep(m)
    /\ Routed(m)

\* The sweep macro on module m when its k-th command fails: the exception
\* leaves the macro and CRS.sweep; the commands up to the failing one have
\* been sent, and lines 561-562 are not reached.
ModuleSweepFault(m, k) ==
    /\ pc = "sweep"
    /\ m \in pending
    /\ Len(frequencies_dict[m]) > 0
    /\ ~AmplitudeTooHigh(ares_dict[m])
    /\ k \in RemoteCalls(ModuleSweepCmds(m, frequencies_dict[m], ares_dict[m]))
    /\ Raise("RemoteError")
    /\ fault' = <<m, k>>
    /\ WarnLowPower(ares_dict[m])
    /\ cmds' = [cmds EXCEPT ![m] =
                  @ \o SubSeq(ModuleSweepCmds(m, frequencies_dict[m], ares_dict[m]), 1, k)]
    /\ UNCHANGED <<sessionVars, dictVars, fir_stage, dev_cmds, data_path_exists,
                   parser_launched, parser_out, op, args, resultVars, ncalls, history,
                   fir_before, other_pc>>
    /\ PerturbSweep(m)
    /\ Routed(m)

\* The write_tones macro on module m when its k-th command (clear_channels,
\* then the batch) fails: the exception leaves the macro and the call.
ModuleWriteTonesFault(m, k) ==
    /\ pc \in {"write_tones", "noise_tones"}
    /\ m \in pending
    /\ ~AmplitudeTooHigh(ares_dict[m])
    /\ k \in RemoteCalls(WriteTonesCmds(m, fres_dict[m], ares_dict[m]))
    /\ Raise("RemoteError")
    /\ fault' = <<m, k>>
    /\ WarnLowPower(ares_dict[m])
    /\ cmds' = [cmds EXCEPT ![m] =
                  @ \o SubSeq(WriteTonesCmds(m, fres_dict[m], ares_dict[m]), 1, k)]
    /\ UNCHANGED <<sessionVars, dictVars, fir_stage, dev_cmds, data_path_exists,
                   parser_launched, parser_out, op, args, resultVars, ncalls, history,
                   fir_before, other_pc>>
    /\ PerturbTones(m)
    /\ Routed(m)

\* The sweep macro on module m, one awaited command at a time: the macros of
\* the modules of a sweep run as concurrent tasks, and each await is a point
\* where another module's macro may run.  The macro stores its results after
\* its last command.
ModuleSweepStep(m) ==
    /\ pc = "sweep"
    /\ m \in pending
    /\ Len(frequencies_dict[m]) > 0
    /\ ~AmplitudeTooHigh(ares_dict[m])
    /\ LET all == ModuleSweepCmds(m, frequencies_dict[m], ares_dict[m])
           k == Len(cmds[m]) + 1
       IN /\ cmds' = [cmds EXCEPT ![m] = Append(@, all[k])]
          /\ IF k = 1 THEN WarnLowPower(ares_dict[m]) ELSE UNCHANGED warnings
          /\ IF k = Len(all)
             THEN /\ Goto(pc, pending \ {m})
                  /\ sweep_f' = SetEntry(sweep_f, m, frequencies_dict[m])
                  /\ sweep_z' = SetEntry(sweep_z, m, ModuleSweepZ(m, frequencies_dict[m]))
             ELSE /\ Goto(pc, pending)
                  /\ UNCHANGED <<sweep_f, sweep_z>>
    /\ UNCHANGED <<sessionVars, dictVars, fir_stage, dev_cmds, data_path_exists,
                   parser_launched, parser_out, op, args, noise_zcal_dict, ncalls, history>>
    /\ UNCHANGED <<fir_before, fault, other_pc>>
    /\ IF Len(cmds[m]) = 0 THEN PerturbSweep(m) ELSE UNCHANGED hzVars
    /\ Routed(m)

\* Variant: a module that has no row turns its channels off and stores an
\* empty result.
ModuleSweepEmptyClears(m) ==
    /\ pc = "sweep"
    /\ m \in pending
    /\ Len(frequencies_dict[m]) = 0
    /\ Goto(pc, pending \ {m})
    /\ cmds' = [cmds EXCEPT ![m] = Append(@, Cmd("clear_channels", <<>>))]
    /\ sweep_f' = SetEntry(sweep_f, m, <<>>)
    /\ sweep_z' = SetEntry(sweep_z, m, <<>>)
    /\ UNCHANGED <<sessionVars, dictVars, fir_stage, dev_cmds, data_path_exists,
                   parser_launched, parser_out, op, args, noise_zcal_dict, ncalls, history>>
    /\ UNCHANGED <<fir_before, warnings, fault, other_pc>>
    /\ UNCHANGED hzVars
    /\ Routed(m)

\* The sweep macro on a module that has no row: it returns at once.
ModuleSweepEmpty(m) ==
    /\ pc = "sweep"
    /\ m \in pending
    /\ Len(frequencies_dict[m]) = 0
    /\ ModuleSweep(m)

\* util.find_key_and_index(d, value): the key and the 0-based index at which
\* value is held in d.
find_key_and_index(d, value) ==
    CHOOSE ki \in UNION {{<<k, i>> : i \in 0..(Len(d[k]) - 1)} : k \in DOMAIN d} :
        d[ki[1]][ki[2] + 1] = value

\* z /= 10 ** (ares / 20) on one row.
NormaliseRow(row, a) ==
    [j \in 1..Len(row) |->
        [row[j] EXCEPT !.stages = Append(@, "amplitude"), !.norm = Append(@, a)]]

\* if self.splitter: z /= 10 ** (-10.5 * 2 / 20) on one row.
SplitterRow(row) ==
    IF splitter
    THEN [j \in 1..Len(row) |-> [row[j] EXCEPT !.stages = Append(@, "splitter")]]
    ELSE row

\* CRS.sweep: f[res_index] = sweep_f[module_index][ch_index]
MergeSweepF(n) ==
    [i \in 1..n |->
        LET ki == find_key_and_index(ch_ix_dict, i - 1)
        IN sweep_f[ki[1]][ki[2] + 1]]

\* CRS.sweep: z[res_index] = sweep_z[module_index][ch_index], then the
\* amplitude and splitter corrections.
MergeSweepZ(n, ares) ==
    [i \in 1..n |->
        LET ki == find_key_and_index(ch_ix_dict, i - 1)
        IN SplitterRow(NormaliseRow(sweep_z[ki[1]][ki[2] + 1], ares[i]))]

\* Variant: the macro hands back the rows as they were requested.
StoredHzRequested(m) ==
    [ch \in 1..Len(frequencies_dict[m]) |-> [j \in 1..Len(frequencies_dict[m][ch]) |-> 0]]

\* sweep_f[module_index] = frequencies: the array the macro stores is the one
\* it perturbed and sent, so its entries carry the same Hz as the sent ones.
StoredHz(m) == sweep_hz[m]

\* CRS.sweep: f[res_index] = sweep_f[module_index][ch_index], the Hz part.
MergeSweepHz(n) ==
    [i \in 1..n |->
        LET ki == find_key_and_index(ch_ix_dict, i - 1)
        IN StoredHz(ki[1])[ki[2] + 1]]

\* CRS.sweep builds f and z once every module's macro has returned.
SweepReturn ==
    /\ pc = "sweep"
    /\ pending = {}
    /\ Return([f |-> MergeSweepF(Len(args.frequencies)),
               hz |-> MergeSweepHz(Len(args.frequencies)),
               z |-> MergeSweepZ(Len(args.frequencies), args.ares)])
    /\ UNCHANGED <<sessionVars, dictVars, deviceVars, op, args, resultVars, ncalls, history>>
    /\ UNCHANGED <<fir_before, fault, other_pc>>
    /\ UNCHANGED hzVars
    /\ UNCHANGED warnings

----------------------------------------------------------------------------
\* CRS.capture_noise.

\* Variant: the output directory is never looked for.
PathExistsNever == FALSE

\* os.path.exists(data_path)
PathExists == data_path_exists

\* capture_noise up to its first await: the output directory must not exist;
\* then set_fir_stage is issued.
CaptureNoiseBegin(fres, ares, fir, delete_parser_data, return_raw) ==
    /\ StartCall("capture_noise",
                 [NoArgs EXCEPT !.fres = fres, !.ares = ares, !.fir_stage = fir,
                                !.delete_parser_data = delete_parser_data,
                                !.return_raw = return_raw])
    /\ ncalls' = ncalls + 1
    /\ warnings' = IF fir <= WarnFirStage THEN {"low fir_stage"} ELSE {}
    /\ IF PathExists
       THEN /\ Raise("FileExistsError")
            /\ dev_cmds' = <<>>
            /\ UNCHANGED fir_stage
       ELSE /\ Goto("noise_fir", {})
            /\ dev_cmds' = <<Cmd("set_fir_stage", <<fir>>)>>
            /\ fir_stage' = fir
    /\ cmds' = NoCmds /\ parser_launched' = 0
    /\ noise_zcal_dict' = Unset
    /\ UNCHANGED <<sessionVars, dictVars, data_path_exists, parser_out, sweep_f, sweep_z,
                   history, routing>>

\* capture_noise reads the fir stage back (verbose) and calls CRS.write_tones,
\* which runs up to its dispatch of the write_tones macro.
CaptureNoiseWriteTones ==
    /\ pc = "noise_fir"
    /\ dev_cmds' = Append(dev_cmds, Cmd("get_fir_stage", <<>>))
    /\ WriteTonesSplit(args.fres, args.ares, "noise_tones")
    /\ LogSplit("tones", args.fres)
    /\ UNCHANGED <<sessionVars, frequencies_dict, fir_stage, cmds, routing, data_path_exists,
                   parser_launched, parser_out, op, args, resultVars, ncalls>>
    /\ UNCHANGED <<fir_before, fault, other_pc>>
    /\ UNCHANGED hzVars
    /\ UNCHANGED warnings

\* CRS.write_tones has returned: capture_noise dispatches get_noise_cal.
CaptureNoiseTonesWritten ==
    /\ pc = "noise_tones"
    /\ pending = {}
    /\ Goto("noise_cal", DOMAIN ch_ix_dict)
    /\ UNCHANGED <<sessionVars, dictVars, deviceVars, op, args, resultVars, ncalls, history>>
    /\ UNCHANGED <<fir_before, fault, other_pc>>
    /\ UNCHANGED hzVars
    /\ UNCHANGED warnings

\* Variant: get_noise_cal returns without switching back to the ADC.
NoiseCalCmdsNoSwitchBack ==
    <<Cmd("set_dmfd_routing", <<1>>), Cmd("py_get_samples", <<CalSamples>>)>>

\* get_noise_cal's commands on a module.
NoiseCalCmds ==
    <<Cmd("set_dmfd_routing", <<1>>), Cmd("py_get_samples", <<CalSamples>>),
      Cmd("set_dmfd_routing", <<0>>)>>

\* get_noise_cal's zcal: one averaged loopback sample per tone of the module.
NoiseCal(m, n) == [i \in 1..n |-> [m |-> m, slot |-> i - 1]]

\* The get_noise_cal macro on module m.
ModuleGetNoiseCal(m) ==
    /\ pc = "noise_cal"
    /\ m \in pending
    /\ Goto(pc, pending \ {m})
    /\ cmds' = [cmds EXCEPT ![m] = @ \o NoiseCalCmds]
    /\ noise_zcal_dict' = SetEntry(noise_zcal_dict, m, NoiseCal(m, Len(fres_dict[m])))
    /\ UNCHANGED <<sessionVars, dictVars, fir_stage, dev_cmds, data_path_exists,
                   parser_launched, parser_out, op, args, sweep_f, sweep_z, ncalls, history>>
    /\ UNCHANGED <<fir_before, fault, other_pc>>
    /\ UNCHANGED hzVars
    /\ UNCHANGED warnings
    /\ Routed(m)

\* Variant: the parser is launched while calibration frames are still to be
\* acquired.
CaptureNoiseLaunchEarly ==
    /\ pc = "noise_cal"
    /\ Goto("noise_wait", {})
    /\ parser_launched' = parser_launched + 1
    /\ data_path_exists' = TRUE
    /\ UNCHANGED <<sessionVars, dictVars, fir_stage, dev_cmds, cmds, routing, parser_out,
                   op, args, resultVars, ncalls, history>>
    /\ UNCHANGED <<fir_before, fault, other_pc>>
    /\ UNCHANGED hzVars
    /\ UNCHANGED warnings

\* capture_noise launches the parser, which writes to tmp/parser_data_00/.
CaptureNoiseLaunch ==
    /\ pc = "noise_cal"
    /\ pending = {}
    /\ Goto("noise_wait", {})
    /\ parser_launched' = parser_launched + 1
    /\ data_path_exists' = TRUE
    /\ UNCHANGED <<sessionVars, dictVars, fir_stage, dev_cmds, cmds, routing, parser_out,
                   op, args, resultVars, ncalls, history>>
    /\ UNCHANGED <<fir_before, fault, other_pc>>
    /\ UNCHANGED hzVars
    /\ UNCHANGED warnings

\* After noise_time + 20 s capture_noise sets the fir stage back.
CaptureNoiseRestore ==
    /\ pc = "noise_wait"
    /\ Goto("noise_read", {})
    /\ dev_cmds' = Append(dev_cmds, Cmd("set_fir_stage", <<RestoreFirStage>>))
    /\ fir_stage' = RestoreFirStage
    /\ UNCHANGED <<sessionVars, dictVars, cmds, routing, data_path_exists, parser_launched,
                   parser_out, op, args, resultVars, ncalls, history>>
    /\ UNCHANGED <<fir_before, fault, other_pc>>
    /\ UNCHANGED hzVars
    /\ UNCHANGED warnings

\* util.convert_parser_to_z: ntones rows of the len samples the parser wrote
\* for each tone of module m.
convert_parser_to_z(m, ntones, len) ==
    [i \in 1..ntones |->
        [t \in 1..len |->
            [m |-> m, slot |-> i - 1, t |-> t - 1, stages |-> <<>>, norm |-> <<>>]]]

\* util.remove_internal_phaseshift on the rows of a module.
remove_internal_phaseshift(rows) ==
    [i \in 1..Len(rows) |->
        [t \in 1..Len(rows[i]) |-> [rows[i][t] EXCEPT !.stages = Append(@, "phase")]]]

\* Variant: the rows of a module are stored at their module-local positions.
RECURSIVE AssignRowsLocal(_, _, _, _)
AssignRowsLocal(z, ch_ix, zi, index) ==
    IF index > Len(ch_ix) THEN z
    ELSE AssignRowsLocal([z EXCEPT ![index] = zi[index]], ch_ix, zi, index + 1)

\* for index, ch_index in enumerate(ch_ix_dict[m]): z[ch_index] = zi[index]
RECURSIVE AssignRows(_, _, _, _)
AssignRows(z, ch_ix, zi, index) ==
    IF index > Len(ch_ix) THEN z
    ELSE AssignRows([z EXCEPT ![ch_ix[index] + 1] = zi[index]], ch_ix, zi, index + 1)

\* for module_index in module_indices: z[ch_index] = zi[index]
RECURSIVE ReadZ(_, _, _)
ReadZ(z, module_indices, lens) ==
    IF module_indices = <<>> THEN z
    ELSE LET m == Head(module_indices)
             zrawi == convert_parser_to_z(m, Len(ch_ix_dict[m]), lens[m])
         IN ReadZ(AssignRows(z, ch_ix_dict[m], remove_internal_phaseshift(zrawi), 1),
                  Tail(module_indices), lens)

\* for module_index in module_indices: zraw[ch_index] = zrawi[index]
RECURSIVE ReadZraw(_, _, _)
ReadZraw(zraw, module_indices, lens) ==
    IF module_indices = <<>> THEN zraw
    ELSE LET m == Head(module_indices)
             zrawi == convert_parser_to_z(m, Len(ch_ix_dict[m]), lens[m])
         IN ReadZraw(AssignRows(zraw, ch_ix_dict[m], zrawi, 1),
                     Tail(module_indices), lens)

\* for module_index in module_indices: zcal[ch_index] = noise_zcal_dict[m][index]
RECURSIVE ReadCal(_, _)
ReadCal(zcal, module_indices) ==
    IF module_indices = <<>> THEN zcal
    ELSE LET m == Head(module_indices)
         IN ReadCal(AssignRows(zcal, ch_ix_dict[m], noise_zcal_dict[m], 1),
                    Tail(module_indices))

\* data_len = min([len(zi) for zi in z])
DataLen(z) == SeqMin([i \in 1..Len(z) |-> Len(z[i])])

\* [zi[:data_len] for zi in z]
Truncate(z, data_len) == [i \in 1..Len(z) |-> SubSeq(z[i], 1, data_len)]

\* z /= 10 ** (ares / 20); if self.splitter: z /= 10 ** (-10.5 * 2 / 20)
NoiseCorrect(z, ares) == [i \in 1..Len(z) |-> SplitterRow(NormaliseRow(z[i], ares[i]))]

\* What capture_noise returns: z, or z, zcal and zraw with return_raw.
NoiseResult(z, zcal, zraw, return_raw, ares) ==
    IF return_raw
    THEN [z |-> NoiseCorrect(Truncate(z, DataLen(z)), ares),
          zcal |-> zcal,
          zraw |-> Truncate(zraw, DataLen(z))]
    ELSE [z |-> NoiseCorrect(Truncate(z, DataLen(z)), ares)]

\* Variant: tmp/ is never removed.
RemoveTreeNever(delete_parser_data) == UNCHANGED data_path_exists

\* Variant: tmp/ is removed whatever the flag says.
RemoveTreeAlways(delete_parser_data) == data_path_exists' = FALSE

\* if delete_parser_data: shutil.rmtree('tmp/')
RemoveTree(delete_parser_data) ==
    data_path_exists' = (IF delete_parser_data THEN FALSE ELSE data_path_exists)

\* capture_noise reads what the parser wrote for each module (lens[m] samples
\* per tone of module m), merges, truncates, deletes tmp/ if asked, corrects
\* and returns.
CaptureNoiseRead(lens) ==
    /\ pc = "noise_read"
    /\ LET nres == Len(args.fres)
           empty == [i \in 1..nres |-> <<>>]
           module_indices == Keys(nco_freq_dict)
       IN Return(NoiseResult(ReadZ(empty, module_indices, lens),
                             ReadCal(empty, module_indices),
                             ReadZraw(empty, module_indices, lens),
                             args.return_raw, args.ares))
    /\ parser_out' = lens
    /\ RemoveTree(args.delete_parser_data)
    /\ UNCHANGED <<sessionVars, dictVars, fir_stage, dev_cmds, cmds, routing, parser_launched,
                   op, args, resultVars, ncalls, history>>
    /\ UNCHANGED <<fir_before, fault, other_pc>>
    /\ UNCHANGED hzVars
    /\ UNCHANGED warnings

----------------------------------------------------------------------------
\* CRS.capture_fast_noise.

\* np.abs(frequency - self.nco_freq_dict[module_index] > 300e6): the absolute
\* value of the comparison, which is true only above the NCO.
FastOutOfRange(nco, frequency) ==
    frequency - Get(nco, ToneModule(nco, frequency)) > FastBandwidth

\* capture_fast_noise: min() over the NCO table, the range check, the bin
\* arithmetic, then the first routing command, which is looked up on
\* self.sz_noise_dict, an attribute the class never sets.  Every call ends in
\* one of the three errors and none reaches the device.
CaptureFastNoise(frequency) ==
    /\ StartCall("capture_fast_noise", [NoArgs EXCEPT !.fres = <<frequency>>])
    /\ ncalls' = ncalls + 1
    /\ IF Len(nco_freq_dict) = 0
       THEN Raise("ValueError: min() arg is an empty sequence")
       ELSE IF FastOutOfRange(nco_freq_dict, frequency)
       THEN Raise("ValueError: Frequency must be within 300 MHz of an NCO frequency")
       ELSE Raise("AttributeError")
    /\ dev_cmds' = <<>> /\ cmds' = NoCmds /\ parser_launched' = 0
    /\ UNCHANGED <<sessionVars, dictVars, fir_stage, data_path_exists, parser_out,
                   resultVars, routing, history>>
    /\ warnings' = {}

\* A second capture_noise call on the same working directory (another task or
\* process) that overlaps the one in flight.  Of that call only the steps that
\* touch the output path are followed: its check of line 360 and its launch
\* of the parser at line 381; its device commands lie between the two.
NoiseLabels == {"noise_fir", "noise_tones", "noise_cal", "noise_wait", "noise_read"}

OtherCaptureCheck ==
    /\ other_pc = "none"
    /\ pc \in NoiseLabels
    /\ other_pc' = IF PathExists THEN "failed" ELSE "checked"
    /\ UNCHANGED <<sessionVars, dictVars, deviceVars, callVars, resultVars, ncalls,
                   history, fir_before, warnings, fault, hzVars>>

OtherCaptureLaunch ==
    /\ other_pc = "checked"
    /\ other_pc' = "launched"
    /\ data_path_exists' = TRUE
    /\ UNCHANGED <<sessionVars, dictVars, fir_stage, dev_cmds, cmds, routing, parser_launched,
                   parser_out, callVars, resultVars, ncalls, history, fir_before,
                   warnings, fault, hzVars>>

----------------------------------------------------------------------------
\* Inputs.

\* The dictionaries given to set_nco: up to MaxNcoItems items with distinct keys.
NcoDicts ==
    {d \in UNION {[1..n -> KeyInputs \X NcoInputs] : n \in 1..MaxNcoItems} :
        \A i, j \in 1..Len(d) : i # j => d[i][1] # d[j][1]}

\* A sweep row: n_points frequencies from start in equal steps.
SweepRow(start, step, n_points) == [j \in 1..n_points |-> start + (j - 1) * step]

Configure == \E fs \in FullScaleInputs : ConfigureSystem(fs)

Tune == \E items \in NcoDicts : SetNco(items)

Tones ==
    \E n \in 1..MaxChannels :
        \E fres \in [1..n -> FreqInputs], ares \in [1..n -> AmpInputs] :
            WriteTonesBegin(fres, ares)

Sweep ==
    \E n \in 1..MaxSweepChannels, n_points \in 1..MaxPoints :
        \E starts \in [1..n -> SweepStartInputs], step \in SweepStepInputs,
           ares \in [1..n -> AmpInputs] :
            SweepBegin([i \in 1..n |-> SweepRow(starts[i], step, n_points)], ares)

FastNoise == \E frequency \in FastFreqInputs : CaptureFastNoise(frequency)

Noise ==
    \E n \in 1..MaxChannels :
        \E fres \in [1..n -> NoiseFreqInputs], ares \in [1..n -> AmpInputs],
           fir \in FirInputs, delete_parser_data \in BOOLEAN, return_raw \in BOOLEAN :
            CaptureNoiseBegin(fres, ares, fir, delete_parser_data, return_raw)

\* The steps of the call in flight.
Step ==
    \/ \E m \in ModuleIds : ModuleWriteTones(m)
    \/ WriteTonesReturn
    \/ \E m \in ModuleIds : ModuleSweep(m)
    \/ SweepReturn
    \/ CaptureNoiseWriteTones
    \/ CaptureNoiseTonesWritten
    \/ \E m \in ModuleIds : ModuleGetNoiseCal(m)
    \/ CaptureNoiseLaunch
    \/ CaptureNoiseRestore
    \/ \E lens \in [KeySet(nco_freq_dict) -> LenInputs] : CaptureNoiseRead(lens)

\* A session that is configured and then makes one acquisition call.
Next ==
    \/ ncalls = 0 /\ Configure
    \/ ncalls = 0 /\ Tune
    \/ ncalls = 0 /\ Tones
    \/ ncalls = 0 /\ Sweep
    \/ ncalls = 0 /\ Noise
    \/ ncalls = 0 /\ FastNoise
    \/ Step

Spec == Init /\ [][Next]_vars

\* A session of up to MaxCalls acquisition calls, with set_nco calls between
\* them, that may start with the output directory of an earlier run in place.
\* The requests come from small pools so that the calls can follow each other.
SessionTables == {<<<<1, 5000>>, <<2, 12000>>>>, <<<<2, 5000>>>>}

SessionTones == {<<5001, 12002>>, <<12002>>}

SessionSweeps == {<<<<12002, 12001>>, <<5001, 5000>>>>}

SessionAres(n) == [i \in 1..n |-> 0]

SessionTune == \E items \in SessionTables : SetNco(items)

SessionWriteTones == \E fres \in SessionTones : WriteTonesBegin(fres, SessionAres(Len(fres)))

SessionSweep == \E frequencies \in SessionSweeps : SweepBegin(frequencies, SessionAres(Len(frequencies)))

SessionNoise ==
    \E fres \in SessionTones, delete_parser_data \in BOOLEAN :
        CaptureNoiseBegin(fres, SessionAres(Len(fres)), SweepFirStage - 1,
                          delete_parser_data, FALSE)

SessionNext ==
    \/ full_scale_dbm = Unset /\ Configure
    \/ ncalls < MaxCalls /\ SessionTune
    \/ ncalls < MaxCalls /\ SessionWriteTones
    \/ ncalls < MaxCalls /\ SessionSweep
    \/ ncalls < MaxCalls /\ SessionNoise
    \/ Step

SpecSession == InitAnyDirectory /\ [][SessionNext]_vars

\* One acquisition call on a device whose remote commands may fail, with
\* requests that include the conditions warned of and set_nco dictionaries
\* that include invalid ones.
ProtocolTables ==
    SessionTables \cup {<<<<NumModules + 1, 5000>>>>, <<<<1, NcoLimit + 1>>>>,
                        <<<<1, 12000>>, <<NumModules + 1, 5000>>>>,
                        <<<<2, 5000>>, <<1, NcoLimit + 1>>>>}

ProtocolAmps == {LowPower - 1, 0}

ProtocolFirs == {WarnFirStage, WarnFirStage + 1}

ProtocolTune == \E items \in ProtocolTables : SetNco(items)

ProtocolWriteTones ==
    \E fres \in SessionTones : \E ares \in [1..Len(fres) -> ProtocolAmps] :
        WriteTonesBegin(fres, ares)

ProtocolSweep ==
    \E frequencies \in SessionSweeps : \E ares \in [1..Len(frequencies) -> ProtocolAmps] :
        SweepBegin(frequencies, ares)

\* Centre frequencies, bandwidths and quality factors for the convenience
\* sweeps; each span is even and divides by npoints - 1.
ProtocolCentres == {<<5004, 12000>>}

ProtocolBandwidths == {4}

ProtocolQres == {<<1251, 3000>>}

ProtocolSweepLinear ==
    \E fres \in ProtocolCentres, bw \in ProtocolBandwidths, npoints \in 1..MaxPoints :
        \E ares \in [1..Len(fres) -> ProtocolAmps] :
            SweepLinear(fres, ares, bw, npoints)

ProtocolSweepQres ==
    \E fres \in ProtocolCentres, qres \in ProtocolQres, npoints \in 1..MaxPoints :
        \E ares \in [1..Len(fres) -> ProtocolAmps] :
            SweepQres(fres, ares, qres, npoints)

ProtocolNoise ==
    \E fres \in SessionTones, fir \in ProtocolFirs, delete_parser_data \in BOOLEAN :
        \E ares \in [1..Len(fres) -> ProtocolAmps] :
            CaptureNoiseBegin(fres, ares, fir, delete_parser_data, FALSE)

ProtocolNext ==
    \/ full_scale_dbm = Unset /\ Configure
    \/ ncalls = 0 /\ ProtocolTune
    \/ ncalls = 0 /\ ProtocolWriteTones
    \/ ncalls = 0 /\ ProtocolSweep
    \/ ncalls = 0 /\ ProtocolSweepLinear
    \/ ncalls = 0 /\ ProtocolSweepQres
    \/ ncalls = 0 /\ ProtocolNoise
    \/ Step
    \/ \E m \in ModuleIds : \E k \in 1..MaxCommands : ModuleSweepFault(m, k)
    \/ OtherCaptureCheck
    \/ OtherCaptureLaunch

SpecProtocol == InitAnySplitter /\ [][ProtocolNext]_vars

----------------------------------------------------------------------------
\* A configured session that makes one sweep whose module macros interleave
\* command by command.
InterleaveSweeps ==
    {<<<<12002, 12001>>, <<5001, 5000>>>>,
     <<<<5001, 5000>>, <<12002, 12001>>, <<5002, 5001>>>>,
     <<<<5001, 5000>>>>}

InterleaveSweep ==
    \E frequencies \in InterleaveSweeps : \E ares \in [1..Len(frequencies) -> ProtocolAmps] :
        SweepBegin(frequencies, ares)

InterleaveNext ==
    \/ full_scale_dbm = Unset /\ Configure
    \/ ncalls = 0 /\ SessionTune
    \/ ncalls = 0 /\ InterleaveSweep
    \/ \E m \in ModuleIds : ModuleSweepStep(m)
    \/ \E m \in ModuleIds : ModuleSweepEmpty(m)
    \/ SweepReturn

SpecInterleave == Init /\ [][InterleaveNext]_vars

\* A configured session that writes or sweeps tones at the edges of the band
\* of NCO 500 MHz (175 MHz and 825 MHz) and on a bin multiple (312.5 MHz), or
\* three channels of which the first and the last are nearest to one NCO.
EdgeTables == {<<<<1, 5000>>>>, <<<<2, 5000>>, <<1, 12000>>>>}

EdgeTones == {<<8250>>, <<3125>>, <<3125, 1750>>, <<5001, 12002>>, <<5001, 12002, 5002>>}

EdgeSweeps ==
    {<<<<3125, 8250>>>>, <<<<1750>>, <<3125>>>>, <<<<12002, 12001>>>>,
     <<<<5001>>, <<12002>>, <<5002>>>>}

EdgeTune == \E items \in EdgeTables : SetNco(items)

EdgeWriteTones == \E fres \in EdgeTones : WriteTonesBegin(fres, SessionAres(Len(fres)))

EdgeSweep ==
    \E frequencies \in EdgeSweeps : SweepBegin(frequencies, SessionAres(Len(frequencies)))

PerturbNext ==
    \/ full_scale_dbm = Unset /\ Configure
    \/ ncalls = 0 /\ EdgeTune
    \/ ncalls = 0 /\ EdgeWriteTones
    \/ ncalls = 0 /\ EdgeSweep
    \/ \E m \in ModuleIds : ModuleWriteTones(m)
    \/ WriteTonesReturn
    \/ \E m \in ModuleIds : ModuleSweep(m)
    \/ SweepReturn

SpecPerturb == InitPerturb /\ [][PerturbNext]_vars

\* A session of up to MaxFaultCalls acquisition calls in which a remote command
\* of a module's sweep or tone write may fail.
FaultNext ==
    \/ full_scale_dbm = Unset /\ Configure
    \/ ncalls = 0 /\ SessionTune
    \/ ncalls < MaxFaultCalls /\ SessionWriteTones
    \/ ncalls < MaxFaultCalls /\ SessionSweep
    \/ ncalls < MaxFaultCalls /\ SessionNoise
    \/ Step
    \/ \E m \in ModuleIds : \E k \in 1..MaxCommands : ModuleSweepFault(m, k)
    \/ \E m \in ModuleIds : \E k \in 1..MaxCommands : ModuleWriteTonesFault(m, k)

SpecFault == Init /\ [][FaultNext]_vars

----------------------------------------------------------------------------
\* Vocabulary of the properties.

\* The current call has issued no hardware command.
NoCommands == dev_cmds = <<>> /\ \A m \in ModuleIds : cmds[m] = <<>>

\* The dictionaries hold the split made by CRS.write_tones in the current call.
TonesSplitDone ==
    /\ Len(nco_freq_dict) > 0
    /\ \/ op = "write_tones"
       \/ /\ op = "capture_noise"
          /\ \/ pc \in {"noise_tones", "noise_cal", "noise_wait", "noise_read"}
             \/ status = "ok"
             \/ status = "error" /\ error # "FileExistsError"

\* The dictionaries hold the split made by CRS.sweep in the current call.
SweepSplitDone == Len(nco_freq_dict) > 0 /\ op = "sweep"

\* The module whose list holds channel c.
AssignedModule(c) ==
    CHOOSE m \in DOMAIN ch_ix_dict : \E p \in 1..Len(ch_ix_dict[m]) : ch_ix_dict[m][p] = c

\* Every channel 0..n-1 is in some module's list.
AllAssigned(n) ==
    \A c \in 0..(n - 1) :
        \E m \in DOMAIN ch_ix_dict : \E p \in 1..Len(ch_ix_dict[m]) : ch_ix_dict[m][p] = c

\* The NCO table is {1: 500e6, 2: 1200e6}.
ScenarioTable ==
    /\ KeySet(nco_freq_dict) = {1, 2}
    /\ Get(nco_freq_dict, 1) = 5000
    /\ Get(nco_freq_dict, 2) = 12000

\* The larger of |nco - max(freqs)| and |nco - min(freqs)|.
SpanOffset(nco, freqs) ==
    IF Abs(nco - SeqMax(freqs)) >= Abs(nco - SeqMin(freqs))
    THEN Abs(nco - SeqMax(freqs))
    ELSE Abs(nco - SeqMin(freqs))

----------------------------------------------------------------------------
\* C1: write_tones assigns every channel to a module whose NCO is at the
\* smallest absolute distance from the channel's requested frequency; with
\* the NCO table {1: 500e6, 2: 1200e6}, channel 0 at 500.1e6 goes to module 1
\* and channel 1 at 1200.2e6 to module 2.
C1_NearestNco ==
    TonesSplitDone =>
        /\ AllAssigned(Len(args.fres))
        /\ \A c \in 0..(Len(args.fres) - 1) : \A k \in KeySet(nco_freq_dict) :
              Abs(Get(nco_freq_dict, AssignedModule(c)) - args.fres[c + 1])
                 <= Abs(Get(nco_freq_dict, k) - args.fres[c + 1])
        /\ (ScenarioTable /\ args.fres = <<5001, 12002>>) =>
              (ch_ix_dict[1] = <<0>> /\ ch_ix_dict[2] = <<1>>)

\* The scenario of C1 has run to its end.
C1_Witness ==
    /\ op = "write_tones" /\ status = "ok"
    /\ ScenarioTable /\ args.fres = <<5001, 12002>>
    /\ ch_ix_dict[1] = <<0>> /\ ch_ix_dict[2] = <<1>>

\* C2: sweep assigns each channel to a module whose NCO minimises the larger
\* of |NCO - max(freqs)| and |NCO - min(freqs)| over the channel's swept
\* frequencies, and a sweep that passed validation has every sweep point of
\* every channel within 325 MHz of the assigned module's NCO.
C2_SweepCoversSpan ==
    SweepSplitDone =>
        /\ AllAssigned(Len(args.frequencies))
        /\ \A c \in 0..(Len(args.frequencies) - 1) : \A k \in KeySet(nco_freq_dict) :
              SpanOffset(Get(nco_freq_dict, AssignedModule(c)), args.frequencies[c + 1])
                 <= SpanOffset(Get(nco_freq_dict, k), args.frequencies[c + 1])
        /\ status \in {"running", "ok"} =>
              \A c \in 0..(Len(args.frequencies) - 1) :
                 \A j \in 1..Len(args.frequencies[c + 1]) :
                    Abs(args.frequencies[c + 1][j] - Get(nco_freq_dict, AssignedModule(c)))
                       <= Bandwidth

\* A sweep over two modules passed validation with a row that reaches the band
\* edge at a point other than its first.
C2_Witness ==
    /\ op = "sweep" /\ status = "ok"
    /\ Len(nco_freq_dict) = 2
    /\ \E c \in 1..Len(args.frequencies) :
          /\ Len(args.frequencies[c]) > 1
          /\ Abs(args.frequencies[c][2] - Get(nco_freq_dict, AssignedModule(c - 1)))
                = Bandwidth

\* The request of the current write_tones or sweep call holds a frequency more
\* than 325 MHz from the NCO of the module it is assigned to.
RequestOutOfBand ==
    \/ /\ op = "write_tones"
       /\ \E c \in 0..(Len(args.fres) - 1) :
             Abs(args.fres[c + 1] - Get(nco_freq_dict, AssignedModule(c))) > Bandwidth
    \/ /\ op = "sweep"
       /\ \E c \in 0..(Len(args.frequencies) - 1) :
             \E j \in 1..Len(args.frequencies[c + 1]) :
                Abs(args.frequencies[c + 1][j] - Get(nco_freq_dict, AssignedModule(c)))
                   > Bandwidth

\* C3: if a requested frequency is more than 325 MHz from the NCO of the
\* module it is assigned to (900e6 with the table {1: 500e6}), write_tones and
\* sweep fail and the call has issued no hardware command; when the call
\* succeeds every requested frequency is within 325 MHz of its module's NCO.
C3_OutOfBandFailsFirst ==
    (op \in {"write_tones", "sweep"} /\ Len(nco_freq_dict) > 0) =>
        /\ RequestOutOfBand => (status = "error" /\ NoCommands)
        /\ status = "ok" => ~RequestOutOfBand

\* write_tones at 900e6 with the table {1: 500e6} has failed.
C3_Witness ==
    /\ op = "write_tones" /\ status = "error"
    /\ nco_freq_dict = <<<<1, 5000>>>>
    /\ args.fres = <<9000>>
    /\ NoCommands

\* C4: with an empty NCO table write_tones and sweep each fail before any
\* hardware command is issued.
C4_EmptyTableFailsFirst ==
    (op \in {"write_tones", "sweep"} /\ Len(nco_freq_dict) = 0) =>
        /\ status = "error"
        /\ error = "Exception: NCO frequencies are not set"
        /\ NoCommands

\* A sweep on a session whose NCO table is empty has failed.
C4_Witness ==
    /\ op = "sweep" /\ Len(nco_freq_dict) = 0
    /\ status = "error" /\ NoCommands

\* The errors of a capture_noise call that its arguments and the session state
\* decide.
ConfigurationErrors ==
    {"Exception: NCO frequencies are not set",
     "ValueError: All of fres must be within 325 MHz of an NCO frequency",
     "ValueError: ares must not exceed full_scale_dbm"}

\* C5: capture_noise with a configuration error (empty NCO table, frequency
\* out of band, amplitude above full scale) fails before any hardware command
\* is issued; the decimation stage has not been changed.
C5_NoiseConfigErrorFirst ==
    (op = "capture_noise" /\ status = "error" /\ error \in ConfigurationErrors) =>
        (NoCommands /\ fir_stage = RestoreFirStage)

\* C6: if a requested amplitude exceeds full scale, write_tones fails before
\* any command is issued on any module; if all amplitudes are within full
\* scale and the frequencies in band, write_tones succeeds.
C6_AmplitudeErrorFirst ==
    (op = "write_tones" /\ pc = "idle" /\ Len(nco_freq_dict) > 0) =>
        /\ (\E i \in 1..Len(args.ares) : args.ares[i] > full_scale_dbm[1]) =>
              (status = "error" /\ NoCommands)
        /\ ((\A i \in 1..Len(args.ares) : args.ares[i] <= full_scale_dbm[1])
              /\ ~RequestOutOfBand) => status = "ok"

\* The 0-based position of channel c in its module's list.
AssignedSlot(c) ==
    (CHOOSE p \in 1..Len(ch_ix_dict[AssignedModule(c)]) :
        ch_ix_dict[AssignedModule(c)][p] = c) - 1

\* Every sample of row comes from slot `slot` of module m.
RowFrom(row, m, slot) ==
    /\ Len(row) > 0
    /\ \A j \in 1..Len(row) : row[j].m = m /\ row[j].slot = slot

\* C8: merging is a bijection: a successful sweep or capture_noise over N
\* channels returns exactly N rows, and row i holds the data of the
\* module-local slot that caller channel i was assigned to.
C8_MergeRestoresOrder ==
    /\ (op = "sweep" /\ status = "ok") =>
          /\ Len(ret.f) = Len(args.frequencies)
          /\ Len(ret.z) = Len(args.frequencies)
          /\ \A c \in 0..(Len(args.frequencies) - 1) :
                /\ ret.f[c + 1] = sweep_f[AssignedModule(c)][AssignedSlot(c) + 1]
                /\ Len(ret.z[c + 1]) = Len(args.frequencies[c + 1])
                /\ RowFrom(ret.z[c + 1], AssignedModule(c), AssignedSlot(c))
    /\ (op = "capture_noise" /\ status = "ok") =>
          /\ Len(ret.z) = Len(args.fres)
          /\ \A c \in 0..(Len(args.fres) - 1) :
                RowFrom(ret.z[c + 1], AssignedModule(c), AssignedSlot(c))

\* A capture over two modules has returned, with channel 0 on the module that
\* comes second in the table.
C8_Witness ==
    /\ op = "capture_noise" /\ status = "ok"
    /\ Len(nco_freq_dict) = 2
    /\ Len(args.fres) = 2
    /\ AssignedModule(0) = Keys(nco_freq_dict)[2]
    /\ AssignedModule(1) = Keys(nco_freq_dict)[1]

\* The modules that hold a tone of the last capture wrote unequal numbers of
\* samples.
UnequalLengths ==
    \E m1, m2 \in DOMAIN ch_ix_dict :
        /\ Len(ch_ix_dict[m1]) > 0 /\ Len(ch_ix_dict[m2]) > 0
        /\ parser_out[m1] # parser_out[m2]

\* The smallest number of samples written for a module that holds a tone.
ShortestLength ==
    CHOOSE n \in {parser_out[m] : m \in {k \in DOMAIN ch_ix_dict : Len(ch_ix_dict[k]) > 0}} :
        \A m \in DOMAIN ch_ix_dict : Len(ch_ix_dict[m]) > 0 => n <= parser_out[m]

\* C10: when the modules' timestreams have unequal lengths capture_noise
\* returns every channel truncated to the shortest length, and the mismatch is
\* surfaced to the caller as an annotation on the result.
C10_TruncatedAndAnnotated ==
    (op = "capture_noise" /\ status = "ok" /\ UnequalLengths) =>
        /\ \A i \in 1..Len(ret.z) : Len(ret.z[i]) = ShortestLength
        /\ "mismatch" \in DOMAIN ret

\* Splits i and j of the session were made for the same request with the same
\* NCO table.
SameRequest(i, j) ==
    /\ history[i].kind = history[j].kind
    /\ history[i].request = history[j].request
    /\ history[i].table = history[j].table

\* C7: the channel-to-module assignment is a function of the call's requests
\* and the current NCO table only: the same request set with the same NCO table
\* gets the identical assignment, whatever calls ran in between.
C7_AssignmentIsFunction ==
    \A i, j \in 1..Len(history) :
        SameRequest(i, j) => history[i].assignment = history[j].assignment

\* A request over two modules has been split twice, with the split of another
\* request between the two.
C7_Witness ==
    \E i, j, k \in 1..Len(history) :
        /\ i < j /\ j < k
        /\ SameRequest(i, k)
        /\ ~SameRequest(i, j)
        /\ Len(history[k].table) = 2
        /\ Len(history[k].request) = 2

\* C9: capture_noise called while the output directory exists fails with an
\* error; in that call no hardware command is issued and the capture process
\* is not launched.
C9_ExistingDirectoryFails ==
    [][(pc = "idle" /\ data_path_exists /\ op' = "capture_noise"
          /\ ncalls' = ncalls + 1)
       => (status' = "error" /\ error' = "FileExistsError"
             /\ dev_cmds' = <<>> /\ cmds' = NoCmds /\ parser_launched' = 0)]_vars

\* A capture_noise call has failed on the directory that an earlier capture of
\* the session left in place.
C9_Witness ==
    /\ op = "capture_noise" /\ status = "error" /\ error = "FileExistsError"
    /\ data_path_exists
    /\ DOMAIN parser_out # {}
    /\ NoCommands /\ parser_launched = 0

\* C11: sweep is all-or-nothing: when a remote command of a module fails, the
\* sweep call raises and returns nothing, and the failing module has no entry
\* in the result tables sweep_f and sweep_z.
C11_SweepAllOrNothing ==
    (op = "sweep" /\ fault # Unset) =>
        /\ status = "error" /\ pc = "idle"
        /\ fault[1] \notin DOMAIN sweep_f
        /\ fault[1] \notin DOMAIN sweep_z

\* A module's command failed after its first sweep step, when another module
\* had already stored its results.
C11_Witness ==
    /\ op = "sweep" /\ fault # Unset /\ status = "error"
    /\ fault[2] > Len(WriteTonesCmds(fault[1], <<>>, <<>>)) + 7
    /\ \E m \in DOMAIN sweep_f : m # fault[1] /\ Len(sweep_f[m]) > 0

\* C12: capture_noise restores the decimation setting: when a capture_noise
\* call completes, the device's decimation stage equals the value it had
\* immediately before the call.
C12_DecimationRestored ==
    (op = "capture_noise" /\ status = "ok") => fir_stage = fir_before

\* The calibration stages in their fixed order, for this session's splitter flag.
CalibrationOrder ==
    IF splitter
    THEN <<"phase", "volts", "amplitude", "splitter">>
    ELSE <<"phase", "volts", "amplitude">>

\* C13: sweep and capture_noise apply the calibration stages to every sample
\* in the same fixed order with none skipped: loopback-phase removal,
\* digitizer-unit conversion, division by the tone amplitude, then the splitter
\* correction if and only if the splitter flag is set.
C13_CalibrationOrder ==
    (op \in {"sweep", "capture_noise"} /\ status = "ok") =>
        \A i \in 1..Len(ret.z) : \A j \in 1..Len(ret.z[i]) :
            ret.z[i][j].stages = CalibrationOrder

\* The acquisition calls.
AcquisitionCalls == {"write_tones", "sweep", "capture_noise"}

\* C14: write_tones, sweep and capture_noise leave the session's NCO table and
\* full-scale power unchanged, whether they succeed or fail: no step of such a
\* call changes either.
C14_AcquisitionKeepsSession ==
    [][op' \in AcquisitionCalls => UNCHANGED <<nco_freq_dict, full_scale_dbm>>]_vars

\* An acquisition call has failed after issuing commands, on a session with a
\* table of two modules.
C14_Witness ==
    /\ op \in AcquisitionCalls /\ status = "error"
    /\ Len(nco_freq_dict) = 2 /\ full_scale_dbm # Unset
    /\ ~NoCommands

\* The dictionary given to set_nco holds a module key outside 1..4 or an NCO
\* frequency above 2.175 GHz.
BadNcoRequest(items) ==
    \E i \in 1..Len(items) :
        items[i][1] \notin 1..NumModules \/ items[i][2] > NcoLimit

\* C15: set_nco with a module key outside 1..4 or an NCO frequency above
\* 2.175 GHz raises before any hardware command is issued and leaves the NCO
\* table unchanged; a successful set_nco changes only the entries of the
\* modules it was given and keeps every other module's entry.
C15_SetNcoChecksFirst ==
    [][op' = "set_nco" =>
         /\ BadNcoRequest(args'.nco_freq_dict) =>
               /\ status' = "error"
               /\ dev_cmds' = <<>> /\ cmds' = NoCmds
               /\ nco_freq_dict' = nco_freq_dict
         /\ status' = "ok" =>
               /\ \A k \in KeySet(nco_freq_dict) \ KeySet(args'.nco_freq_dict) :
                     k \in KeySet(nco_freq_dict')
                        /\ Get(nco_freq_dict', k) = Get(nco_freq_dict, k)
               /\ KeySet(nco_freq_dict') =
                     KeySet(nco_freq_dict) \cup KeySet(args'.nco_freq_dict)
               /\ \A m \in ModuleIds \ KeySet(args'.nco_freq_dict) : cmds'[m] = <<>>]_vars

\* set_nco has failed on a dictionary whose first item is valid, on a session
\* that already has a table.
C15_Witness ==
    /\ op = "set_nco" /\ status = "error" /\ error = "ValueError"
    /\ Len(args.nco_freq_dict) = 2
    /\ Len(nco_freq_dict) > 0
    /\ NoCommands

\* C16: two noise captures never target the same output path concurrently:
\* of two overlapping capture_noise calls at most one launches a capture
\* process writing to tmp/parser_data_00/.
C16_OneCaptureOnPath ==
    ~(op = "capture_noise" /\ parser_launched > 0 /\ other_pc = "launched")

\* A call of sweep_linear or sweep_qres.
ConvenienceCall == op = "sweep" /\ args.via \in {"sweep_linear", "sweep_qres"}

\* The span of channel i in a convenience call: bw, or fres[i] / qres[i].
ConvenienceSpan(i) ==
    IF args.via = "sweep_linear" THEN args.bw ELSE args.fres[i] \div args.qres[i]

\* The array handed to sweep has one row of npoints values per centre
\* frequency, each starting at fres[i] + span_i / 2 and never rising.
ConvenienceShape ==
    /\ Len(args.frequencies) = Len(args.fres)
    /\ \A i \in 1..Len(args.fres) :
          LET row == args.frequencies[i]
          IN /\ Len(row) = args.npoints
             /\ row[1] = args.fres[i] + ConvenienceSpan(i) \div 2
             /\ \A j \in 1..(args.npoints - 1) : row[j] >= row[j + 1]

\* sweep has run once, on the array of the call, and what the call returned is
\* what that sweep returned: one row per channel in the order of the request.
ConvenienceOneSweep ==
    /\ ncalls = 1
    /\ Len(nco_freq_dict) > 0 =>
          /\ Len(history) = 1
          /\ history[1].kind = "sweep"
          /\ history[1].request = args.frequencies
    /\ status = "ok" =>
          /\ ret.f = MergeSweepF(Len(args.fres))
          /\ ret.z = MergeSweepZ(Len(args.fres), args.ares)
          /\ Len(ret.f) = Len(args.fres)
          /\ \A i \in 1..Len(ret.f) : Len(ret.f[i]) = args.npoints

\* C17: sweep_linear and sweep_qres each call sweep exactly once with an
\* M x npoints array whose row i starts at fres[i] + span_i / 2 and, when
\* npoints is at least 2, runs down to fres[i] - span_i / 2 (span_i = bw for
\* sweep_linear, fres[i] / qres[i] for sweep_qres), and return its result
\* unchanged; with npoints = 1 the row is the single value fres[i] + span_i / 2.
C17_ConvenienceReduces ==
    ConvenienceCall =>
        /\ ConvenienceShape
        /\ ConvenienceOneSweep
        /\ args.npoints >= 2 =>
              \A i \in 1..Len(args.fres) :
                  args.frequencies[i][args.npoints] =
                      args.fres[i] - ConvenienceSpan(i) \div 2

\* sweep_qres has returned a sweep of two channels over two or more points.
C17_Witness ==
    /\ ConvenienceCall /\ args.via = "sweep_qres"
    /\ status = "ok" /\ pc = "idle"
    /\ args.npoints >= 2
    /\ Len(ret.f) = 2

\* C17 as stated: every row runs from fres[i] + span_i / 2 down to
\* fres[i] - span_i / 2, whatever npoints is.
C17_RowsReachLowerEdge ==
    ConvenienceCall =>
        \A i \in 1..Len(args.fres) :
            /\ args.frequencies[i][1] = args.fres[i] + ConvenienceSpan(i) \div 2
            /\ args.frequencies[i][args.npoints] =
                   args.fres[i] - ConvenienceSpan(i) \div 2

\* The names of the commands of a list, in order.
CommandKinds(cs) == [k \in 1..Len(cs) |-> cs[k].c]

\* The names of a batch that sets n tones.
ToneBatchKinds(n) ==
    [i \in 1..(2 * n) |-> IF i % 2 = 1 THEN "set_frequency" ELSE "set_amplitude"]

\* write_tones or capture_noise.
ToneCalls == {"write_tones", "capture_noise"}

\* The request of the current write_tones or capture_noise call is refused:
\* no NCO table, a tone out of band, or an amplitude above full scale.
ToneRequestRefused ==
    \/ Len(nco_freq_dict) = 0
    \/ \E c \in 0..(Len(args.fres) - 1) :
          Abs(args.fres[c + 1] - Get(nco_freq_dict, AssignedModule(c))) > Bandwidth
    \/ \E i \in 1..Len(args.ares) : args.ares[i] > full_scale_dbm[1]

\* The commands of a successful write_tones or capture_noise call, by name:
\* they depend on the call and on the number of tones of each module only.
ToneCallCommands ==
    /\ CommandKinds(dev_cmds) =
          IF op = "write_tones" THEN <<>>
          ELSE <<"set_fir_stage", "get_fir_stage", "set_fir_stage">>
    /\ \A m \in ModuleIds :
          IF m \notin KeySet(nco_freq_dict) THEN cmds[m] = <<>>
          ELSE /\ CommandKinds(cmds[m]) =
                     IF op = "write_tones" THEN <<"clear_channels", "batch">>
                     ELSE <<"clear_channels", "batch", "set_dmfd_routing",
                            "py_get_samples", "set_dmfd_routing">>
               /\ CommandKinds(cmds[m][2].a) = ToneBatchKinds(Len(fres_dict[m]))
    /\ op = "capture_noise" =>
          /\ dev_cmds[1].a = <<args.fir_stage>>
          /\ parser_launched = 1

\* The current capture_noise or write_tones call met a warning condition.
WarningCondition ==
    \/ op = "capture_noise" /\ args.fir_stage <= WarnFirStage
    \/ \E i \in 1..Len(args.ares) : args.ares[i] < LowPower

StepKinds ==
    <<"batch", "set_dmfd_routing", "sleep", "py_get_samples",
      "set_dmfd_routing", "sleep", "py_get_samples">>

StepLength == Len(StepKinds)

\* The k-th command of module m is the one the state machine
\* Idle -> TonesWritten -> Sweeping(0..n_points-1) -> Done issues k-th for the
\* n_channels x n_points array of the module.
SweepCommandAt(m, k) ==
    LET frequencies == frequencies_dict[m]
        n_points == Len(frequencies[1])
        nco == Get(nco_freq_dict, m)
        c == cmds[m][k]
        j == (k - 3) \div StepLength + 1
        phase == (k - 3) % StepLength
    IN IF k = 1 THEN c.c = "clear_channels"
       ELSE IF k = 2
       THEN /\ c.c = "batch"
            /\ Len(c.a) = 2 * Len(frequencies)
            /\ \A ch \in 1..Len(frequencies) :
                  /\ c.a[2 * ch - 1] = Cmd("set_frequency", <<ch, frequencies[ch][1] - nco>>)
                  /\ c.a[2 * ch].c = "set_amplitude"
       ELSE IF k = 3 + StepLength * n_points THEN c.c = "clear_channels"
       ELSE /\ j <= n_points
            /\ c.c = StepKinds[phase + 1]
            /\ CASE phase = 0 ->
                      /\ c.c = "batch"
                      /\ Len(c.a) = Len(frequencies)
                      /\ \A ch \in 1..Len(frequencies) :
                            c.a[ch] = Cmd("set_frequency", <<ch, frequencies[ch][j] - nco>>)
                 [] phase = 1 -> c = Cmd("set_dmfd_routing", <<1>>)
                 [] phase = 2 -> c.c = "sleep"
                 [] phase = 3 -> c = Cmd("py_get_samples", <<CalSamples>>)
                 [] phase = 4 -> c = Cmd("set_dmfd_routing", <<0>>)
                 [] phase = 5 -> c.c = "sleep"
                 [] phase = 6 -> c = Cmd("py_get_samples", <<>>)

\* The number of commands of a whole sweep of module m.
SweepLength(m) == 3 + StepLength * Len(frequencies_dict[m][1])

\* C19: a module's sweep with at least one channel follows
\* Idle -> TonesWritten -> Sweeping(0..n_points-1) -> Done: tones are written
\* once before the first step, the sweep indices are visited in increasing
\* order once each, each step is frequency rewrite, loopback routing, settle,
\* calibration read, normal routing, settle, data read, and the channels are
\* cleared and the results stored only after the last step.
C19_ModuleSweepOrder ==
    op = "sweep" =>
        \A m \in ModuleIds :
            /\ cmds[m] # <<>> =>
                  /\ Len(frequencies_dict[m]) > 0
                  /\ Len(cmds[m]) <= SweepLength(m)
                  /\ \A k \in 1..Len(cmds[m]) : SweepCommandAt(m, k)
            /\ m \in DOMAIN sweep_f <=> m \in DOMAIN sweep_z
            /\ m \in DOMAIN sweep_f => Len(cmds[m]) = SweepLength(m)
            /\ (status = "ok" /\ m \in KeySet(nco_freq_dict)
                   /\ Len(frequencies_dict[m]) > 0) =>
                  m \in DOMAIN sweep_f

\* A module has swept its channels over two points and stored its results.
C19_Witness ==
    /\ op = "sweep" /\ status = "ok"
    /\ \E m \in DOMAIN sweep_f :
          /\ Len(frequencies_dict[m][1]) = 2
          /\ Len(cmds[m]) = SweepLength(m)

\* The k-th command of list cs is a sample read with no settling delay since
\* a routing switch before it.
UnsettledRead(cs, k) ==
    /\ cs[k].c = "py_get_samples"
    /\ \E r \in 1..(k - 1) :
          /\ cs[r].c = "set_dmfd_routing"
          /\ \A w \in (r + 1)..(k - 1) : cs[w].c # "sleep"

\* C20: every sample read is separated from the most recent routing-mode
\* switch on that module by a settling delay, in the sweep step and in the
\* noise calibration-frame acquisition alike.
C20_SettleBeforeRead ==
    \A m \in ModuleIds : \A k \in 1..Len(cmds[m]) : ~UnsettledRead(cmds[m], k)

\* The step taken appends one command to the list of module m.
ModuleCommand(m) == Len(cmds'[m]) = Len(cmds[m]) + 1 /\ SubSeq(cmds'[m], 1, Len(cmds[m])) = cmds[m]

\* Command c reads samples: a = <<CalSamples>> for the calibration read of a
\* sweep step and <<>> for its data read.
IsRead(c, a) == c.c = "py_get_samples" /\ c.a = a

\* The entry of module m in a result table, if it has one.
Entry(table, m) == IF m \in DOMAIN table THEN <<table[m]>> ELSE <<>>

\* C21: when the sweeps of several modules are interleaved in any order, each
\* module's commands are still issued in program order, every calibration read
\* on module m happens while m is routed to loopback and every data read while
\* m is routed to the normal path, and a command of one module changes no other
\* module's commands, routing or result entry.
C21_InterleavedSweeps ==
    [][(pc = "sweep" /\ op' = "sweep") =>
          \A m \in ModuleIds :
              cmds'[m] # cmds[m] =>
                  /\ ModuleCommand(m)
                  /\ (Len(cmds[m]) <= SweepLength(m) /\ SweepCommandAt(m, Len(cmds[m])))'
                  /\ IsRead(cmds'[m][Len(cmds'[m])], <<CalSamples>>)
                        => routing[m] = "CARRIER"
                  /\ IsRead(cmds'[m][Len(cmds'[m])], <<>>)
                        => routing[m] = "ADC"
                  /\ \A n \in ModuleIds \ {m} :
                        /\ cmds'[n] = cmds[n]
                        /\ routing'[n] = routing[n]
                        /\ Entry(sweep_f', n) = Entry(sweep_f, n)
                        /\ Entry(sweep_z', n) = Entry(sweep_z, n)]_vars

\* Two modules are in the middle of their sweeps, one routed to loopback and
\* the other to the normal path.
C21_Witness ==
    /\ pc = "sweep"
    /\ \E m, n \in pending :
          /\ m # n
          /\ Len(cmds[m]) > 2 /\ Len(cmds[n]) > 2
          /\ routing[m] = "CARRIER" /\ routing[n] = "ADC"
          /\ cmds[m][Len(cmds[m])].c = "py_get_samples"
          /\ cmds[n][Len(cmds[n])].c = "py_get_samples"

\* The tones of the current call are written on every module of the table.
TonesWrittenEverywhere ==
    \A m \in KeySet(nco_freq_dict) :
        /\ Len(cmds[m]) >= 2
        /\ cmds[m][1].c = "clear_channels" /\ cmds[m][2].c = "batch"

\* Every module of the table has its calibration frame.
CalibratedEverywhere ==
    /\ DOMAIN noise_zcal_dict = KeySet(nco_freq_dict)
    /\ \A m \in KeySet(nco_freq_dict) :
          SubSeq(cmds[m], 3, Len(cmds[m])) = NoiseCalCmds

\* The last device-level command of the call.
LastDeviceCommand == dev_cmds[Len(dev_cmds)]

\* C22: a successful capture_noise sets the requested decimation stage, writes
\* the tones on all modules, acquires one calibration frame for every module of
\* the table, launches the capture process once, waits, sets the decimation
\* stage back and only then reads the output: every step of a capture finds
\* the earlier steps done and the later ones not yet begun.
C22_CaptureNoiseOrder ==
    [][(op = "capture_noise" /\ op' = "capture_noise" /\ pc # "idle") =>
          /\ dev_cmds[1] = Cmd("set_fir_stage", <<args.fir_stage>>)
          /\ (\E m \in ModuleIds : cmds'[m] # cmds[m] /\ pc = "noise_tones") =>
                /\ Len(dev_cmds) = 2 /\ parser_launched = 0
                /\ noise_zcal_dict = Unset
          /\ noise_zcal_dict' # noise_zcal_dict =>
                /\ TonesWrittenEverywhere
                /\ parser_launched = 0
          /\ parser_launched' # parser_launched =>
                /\ TonesWrittenEverywhere /\ CalibratedEverywhere
                /\ parser_launched = 0 /\ parser_launched' = 1
                /\ pc' = "noise_wait"
          /\ (Len(dev_cmds') > Len(dev_cmds) /\ Len(dev_cmds) >= 2) =>
                /\ pc = "noise_wait" /\ parser_launched = 1
                /\ LastDeviceCommand' = Cmd("set_fir_stage", <<RestoreFirStage>>)
          /\ status' = "ok" =>
                /\ pc = "noise_read" /\ parser_launched = 1
                /\ CalibratedEverywhere
                /\ Len(dev_cmds) = 3
                /\ LastDeviceCommand = Cmd("set_fir_stage", <<RestoreFirStage>>)
                /\ UNCHANGED <<dev_cmds, cmds, noise_zcal_dict, parser_launched>>]_vars

\* A capture on a table of two modules has returned.
C22_Witness ==
    /\ op = "capture_noise" /\ status = "ok"
    /\ Len(nco_freq_dict) = 2
    /\ parser_launched = 1
    /\ CalibratedEverywhere

\* The frequencies module m has been sent by the set_frequency commands of the
\* current call, each as <<c, h>>: c units of 100 kHz plus h Hz.  The tone
\* batch sends the tones, each sweep step a column of the sweep array.
SentTones(m) ==
    IF Len(cmds[m]) < 2 \/ m \notin KeySet(nco_freq_dict) THEN {}
    ELSE IF op = "sweep"
    THEN {<<frequencies_dict[m][ch][1], tone_hz[m][ch]>> : ch \in 1..Len(tone_hz[m])}
    ELSE IF op \in {"write_tones", "capture_noise"}
    THEN {<<fres_dict[m][i], tone_hz[m][i]>> : i \in 1..Len(tone_hz[m])}
    ELSE {}

SentSweep(m) ==
    IF op = "sweep" /\ m \in KeySet(nco_freq_dict) /\ Len(cmds[m]) > 2
    THEN {<<frequencies_dict[m][ch][j], sweep_hz[m][ch][j]>> :
             ch \in 1..Len(sweep_hz[m]), j \in 1..((Len(cmds[m]) - 3) \div StepLength + 1)
                                              \cap 1..Len(frequencies_dict[m][1])}
    ELSE {}

Sent(m) == SentTones(m) \cup SentSweep(m)

\* The distance in Hz of frequency <<c, h>> from the NCO of module m.
HzFromNco(m, f) == Abs((f[1] - Get(nco_freq_dict, m)) * 100000 + f[2])

\* C24: every frequency sent to the device by the tone write or by a sweep
\* step, after the random perturbation and the move off the bin multiples,
\* lies within 325 MHz of the assigned module's NCO.
C24_SentWithinBand ==
    \A m \in ModuleIds : \A f \in Sent(m) : HzFromNco(m, f) <= Bandwidth * 100000

\* C25: after the perturbation no frequency written to the device is within
\* 101 Hz of a bin multiple: 101 <= f mod binwidth <= binwidth - 101.
C25_SentOffBinMultiples ==
    \A m \in ModuleIds : \A f \in Sent(m) :
        /\ Residue8(f[1], f[2]) >= 8 * Threshold
        /\ Residue8(f[1], f[2]) <= BinWidth8 - 8 * Threshold

\* The commands of batch b that are addressed to hardware channel ch.
ForChannel(b, ch) == {i \in 1..Len(b) : b[i].a[1] = ch}

\* C23: the tone write on a module issues clear_channels first and then one
\* batch that holds, for the tone at position k of the module's list, one
\* set_frequency (offset from the module's NCO) and one set_amplitude addressed
\* to hardware channel k + 1, and nothing for any other channel.
C23_ToneBatch ==
    op = "write_tones" =>
        \A m \in ModuleIds :
            cmds[m] # <<>> =>
                /\ m \in KeySet(nco_freq_dict)
                /\ Len(cmds[m]) = 2
                /\ cmds[m][1] = Cmd("clear_channels", <<>>)
                /\ cmds[m][2].c = "batch"
                /\ LET b == cmds[m][2].a
                       n == Len(fres_dict[m])
                   IN /\ \A i \in 1..Len(b) : b[i].a[1] \in 1..n
                      /\ \A k \in 0..(n - 1) :
                            /\ Cardinality(ForChannel(b, k + 1)) = 2
                            /\ \E i, j \in ForChannel(b, k + 1) :
                                  /\ i < j
                                  /\ b[i] = Cmd("set_frequency",
                                                <<k + 1, fres_dict[m][k + 1] - Get(nco_freq_dict, m)>>)
                                  /\ b[j] = Cmd("set_amplitude",
                                                <<k + 1, ares_dict[m][k + 1] - full_scale_dbm[1]>>)

\* write_tones has returned after writing two tones on one module.
C23_Witness ==
    /\ op = "write_tones" /\ status = "ok"
    /\ \E m \in KeySet(nco_freq_dict) :
          /\ Len(fres_dict[m]) = 2
          /\ Len(cmds[m]) = 2
          /\ Len(cmds[m][2].a) = 4

\* C26: after a remote command fails during a module's sweep or tone write,
\* the call issues no further command to that module: the failing command is
\* the last one the module was sent, it is sent once, and the call has ended
\* with the error; the routing is not switched back and the channels are not
\* cleared.
C26_NoCommandAfterFault ==
    fault # Unset =>
        LET m == fault[1]
            k == fault[2]
            program == IF op = "sweep"
                       THEN ModuleSweepCmds(m, frequencies_dict[m], ares_dict[m])
                       ELSE WriteTonesCmds(m, fres_dict[m], ares_dict[m])
        IN /\ status = "error" /\ error = "RemoteError"
           /\ pc = "idle" /\ pending = {}
           /\ cmds[m] = SubSeq(program, 1, k)
           /\ routing[m] = RouteAfter(routing[m], cmds[m])
           /\ op = "sweep" => m \notin DOMAIN sweep_f

\* A sweep has failed on a calibration read: the module is left routed to
\* loopback with its tones on.
C26_Witness ==
    /\ fault # Unset /\ op = "sweep"
    /\ routing[fault[1]] = "CARRIER"
    /\ cmds[fault[1]][fault[2]].c = "py_get_samples"
    /\ \A i \in 3..fault[2] : cmds[fault[1]][i].c # "clear_channels"

----------------------------------------------------------------------------
\* The channel lists hold every channel 0..n-1 exactly once, and each list is
\* strictly increasing.
OrderedPartition(n) ==
    /\ AllAssigned(n)
    /\ \A m1, m2 \in DOMAIN ch_ix_dict :
         \A p \in 1..Len(ch_ix_dict[m1]), q \in 1..Len(ch_ix_dict[m2]) :
            /\ ch_ix_dict[m1][p] \in 0..(n - 1)
            /\ ch_ix_dict[m1][p] = ch_ix_dict[m2][q] => (m1 = m2 /\ p = q)
            /\ (m1 = m2 /\ p < q) => ch_ix_dict[m1][p] < ch_ix_dict[m2][q]

\* The lists of dictionary d hold, position by position, the requested values
\* of the channels of the index lists.
AlignedWith(d, values) ==
    /\ DOMAIN d = DOMAIN ch_ix_dict
    /\ \A m \in DOMAIN ch_ix_dict :
         /\ Len(d[m]) = Len(ch_ix_dict[m])
         /\ \A p \in 1..Len(ch_ix_dict[m]) : d[m][p] = values[ch_ix_dict[m][p] + 1]

\* C27: the partition made by write_tones and sweep puts every channel index
\* 0..N-1 in exactly one module's list, each module's list has strictly
\* increasing original indices, and the module's frequency and amplitude lists
\* are aligned position by position with its index list.
C27_OrderedPartition ==
    /\ TonesSplitDone =>
         /\ OrderedPartition(Len(args.fres))
         /\ AlignedWith(fres_dict, args.fres)
         /\ AlignedWith(ares_dict, args.ares)
    /\ SweepSplitDone =>
         /\ OrderedPartition(Len(args.frequencies))
         /\ AlignedWith(frequencies_dict, args.frequencies)
         /\ AlignedWith(ares_dict, args.ares)

\* A request has been split over two modules, one of which holds two channels
\* that are not neighbours in the request.
C27_Witness ==
    /\ TonesSplitDone \/ SweepSplitDone
    /\ \E m1, m2 \in DOMAIN ch_ix_dict :
         /\ m1 # m2
         /\ Len(ch_ix_dict[m1]) = 2 /\ Len(ch_ix_dict[m2]) = 1
         /\ ch_ix_dict[m1][1] < ch_ix_dict[m2][1]
         /\ ch_ix_dict[m2][1] < ch_ix_dict[m1][2]

----------------------------------------------------------------------------
\* C28: the capture artifacts on disk are deleted only when delete_parser_data
\* is set and only in the step of capture_noise that has read the output of
\* every module; a capture_noise call that fails, or one without the flag,
\* deletes nothing.
C28_DeleteOnlyAfterRead ==
    [][/\ (data_path_exists /\ ~data_path_exists') =>
            /\ op = "capture_noise" /\ pc = "noise_read"
            /\ args.delete_parser_data
            /\ parser_launched = 1
            /\ status' = "ok"
            /\ DOMAIN parser_out' = KeySet(nco_freq_dict)
       /\ (op' = "capture_noise" /\ status' = "error") => UNCHANGED data_path_exists
       /\ (op' = "capture_noise" /\ ~args'.delete_parser_data) =>
            (data_path_exists => data_path_exists')]_vars

\* A capture_noise call with delete_parser_data has returned and its directory
\* is gone.
C28_Witness ==
    /\ op = "capture_noise" /\ status = "ok"
    /\ args.delete_parser_data
    /\ parser_launched = 1
    /\ ~data_path_exists

----------------------------------------------------------------------------
\* The frequency given to capture_fast_noise is more than 300 MHz from the
\* nearest NCO of the table, above it or below it.
FarFromNearestNco ==
    /\ op = "capture_fast_noise"
    /\ Len(nco_freq_dict) > 0
    /\ Abs(args.fres[1] - Get(nco_freq_dict, ToneModule(nco_freq_dict, args.fres[1])))
          > FastBandwidth

\* C29: capture_fast_noise raises the range error whenever the requested
\* frequency is more than 300 MHz from the nearest NCO frequency, above or
\* below it, and does so before any hardware command is issued.
C29_FastNoiseRangeError ==
    FarFromNearestNco =>
        /\ status = "error"
        /\ error = "ValueError: Frequency must be within 300 MHz of an NCO frequency"
        /\ NoCommands

\* The part of C29 that the code keeps: a frequency more than 300 MHz above the
\* nearest NCO gets the range error, and no call of capture_fast_noise issues
\* a hardware command.
FastNoiseRangeErrorAbove ==
    op = "capture_fast_noise" =>
        /\ status = "error" /\ NoCommands
        /\ (FarFromNearestNco /\ args.fres[1] > Get(nco_freq_dict, ToneModule(nco_freq_dict, args.fres[1])))
              => error = "ValueError: Frequency must be within 300 MHz of an NCO frequency"

----------------------------------------------------------------------------
\* The modules that received a command in the current call.
Touched == {m \in ModuleIds : cmds[m] # <<>>}

\* C30: when a sweep or a capture_noise call has completed successfully, and
\* when a module's calibration frame has been acquired within capture_noise,
\* every module touched is routed to the normal input path (ADC): none is
\* left in loopback routing.
C30_SuccessLeavesAdc ==
    /\ (op \in {"sweep", "capture_noise"} /\ status = "ok") =>
          \A m \in Touched : routing[m] = "ADC"
    /\ (op = "capture_noise" /\ pc \in {"noise_cal", "noise_wait", "noise_read"}) =>
          \A m \in KeySet(nco_freq_dict) \ pending : routing[m] = "ADC"

\* The second call of a session has succeeded on a module that was switched
\* to loopback and back in this call.
C30_Witness ==
    /\ op \in {"sweep", "capture_noise"} /\ status = "ok"
    /\ ncalls = MaxFaultCalls
    /\ \E m \in Touched :
         /\ routing[m] = "ADC"
         /\ \E k \in 1..Len(cmds[m]) :
               cmds[m][k].c = "set_dmfd_routing" /\ RouteOf(cmds[m][k]) = "CARRIER"

----------------------------------------------------------------------------
\* The frequency that sweep step j sent for the row at position p of module
\* m: the argument of its set_frequency, as <<units of 100 kHz, Hz>>.
SentAtStep(m, p, j) ==
    LET b == cmds[m][2 + (j - 1) * StepLength + 1].a
        i == CHOOSE i \in 1..Len(b) : b[i].c = "set_frequency" /\ b[i].a[1] = p
    IN <<b[i].a[2] + Get(nco_freq_dict, m), sweep_hz[m][p][j]>>

\* C31: the matrix f returned by sweep holds, for every channel and sweep
\* step, the frequency that the step wrote to the device (the perturbed
\* value), and the array the caller passed is as it was when the call began.
C31_ReturnedIsSent ==
    (op = "sweep" /\ status = "ok") =>
        /\ args.frequencies = history[Len(history)].request
        /\ \A c \in 0..(Len(args.frequencies) - 1) :
             \A j \in 1..Len(args.frequencies[c + 1]) :
                <<ret.f[c + 1][j], ret.hz[c + 1][j]>>
                    = SentAtStep(AssignedModule(c), AssignedSlot(c) + 1, j)

\* A sweep over two modules has returned a frequency that is not the one
\* requested, and another that is.
C31_Witness ==
    /\ op = "sweep" /\ status = "ok"
    /\ \E m1, m2 \in DOMAIN sweep_f : m1 # m2
    /\ \E c \in 1..Len(ret.hz) : \E j \in 1..Len(ret.hz[c]) : ret.hz[c][j] # 0
    /\ \E c \in 1..Len(ret.hz) : \E j \in 1..Len(ret.hz[c]) : ret.hz[c][j] = 0

----------------------------------------------------------------------------
\* The step begins a capture_noise call.
StartsCapture == op' = "capture_noise" /\ ncalls' = ncalls + 1

\* The call begun by the step has failed the check of the output directory:
\* nothing was sent and no process launched.
FailsPathCheck ==
    /\ status' = "error" /\ error' = "FileExistsError"
    /\ dev_cmds' = <<>> /\ cmds' = NoCmds /\ parser_launched' = 0

\* The call begun by the step is past the check of the output directory.
PassesPathCheck == status' = "running" /\ pc' = "noise_fir"

\* C32: after a successful capture_noise without delete_parser_data the next
\* capture_noise on the working directory fails the pre-existence check
\* without launching a process; after a successful capture_noise with
\* delete_parser_data the next capture_noise passes the check.  Calls of other
\* kinds made in between leave the directory as the capture left it.
C32_NextCaptureAfterSuccess ==
    [][/\ (op' = "capture_noise" /\ status' = "ok") =>
             (data_path_exists' <=> ~args'.delete_parser_data)
       /\ (op' # "capture_noise") => UNCHANGED data_path_exists
       /\ (StartsCapture /\ data_path_exists) => FailsPathCheck
       /\ (StartsCapture /\ ~data_path_exists) => PassesPathCheck
       /\ (StartsCapture /\ op = "capture_noise" /\ status = "ok") =>
             IF args.delete_parser_data THEN PassesPathCheck ELSE FailsPathCheck]_vars

\* A capture_noise call is past the directory check in a session where an
\* earlier capture has been read and has removed its output.
C32_Witness ==
    /\ op = "capture_noise" /\ pc = "noise_fir"
    /\ ncalls > 1
    /\ DOMAIN parser_out # {}
    /\ parser_launched = 0
    /\ ~data_path_exists

----------------------------------------------------------------------------
\* The modules of the NCO table to which the current sweep assigned no channel.
Unassigned == {m \in KeySet(nco_freq_dict) : Len(ch_ix_dict[m]) = 0}

\* The modules whose results the merge of CRS.sweep looks up.
MergeLookups ==
    {find_key_and_index(ch_ix_dict, c)[1] : c \in 0..(Len(args.frequencies) - 1)}

\* C33: in a sweep, a configured module to which no channel was assigned
\* receives no hardware command and records no result entry, the merge never
\* looks that module up, and the sweep succeeds for the other modules: once
\* every module's macro is done the call returns the rows of all channels.
C33_UnassignedModuleUntouched ==
    (SweepSplitDone /\ status # "error") =>
        /\ \A m \in Unassigned :
             /\ cmds[m] = <<>>
             /\ m \notin DOMAIN sweep_f
             /\ m \notin DOMAIN sweep_z
             /\ sweep_hz[m] = <<>> /\ tone_hz[m] = <<>>
             /\ m \notin MergeLookups
        /\ status = "ok" =>
             /\ DOMAIN sweep_f = KeySet(nco_freq_dict) \ Unassigned
             /\ MergeLookups = DOMAIN sweep_f
             /\ Len(ret.f) = Len(args.frequencies)
             /\ Len(ret.z) = Len(args.frequencies)

\* A sweep has succeeded on a table of two modules, one of which was assigned
\* no channel.
C33_Witness ==
    /\ op = "sweep" /\ status = "ok"
    /\ Len(nco_freq_dict) = 2
    /\ Unassigned # {}
    /\ DOMAIN sweep_f # {}

====
